---------------------------- MODULE Spec2Model ----------------------------
(***************************************************************************)
(* Bookwise: the category classifier (utils/categoryClassifier), the       *)
(* Category and Expense models and the request handlers that use them,     *)
(* at the granularity of one SQL statement per step.                       *)
(*                                                                         *)
(* Text is a sequence of characters; a character is written as its code    *)
(* point ("u85AA").  Money is an integer number of cents (DECIMAL(10,2)),  *)
(* a confidence an integer number of hundredths, a DATE the integer        *)
(* yyyymmdd.                                                               *)
(***************************************************************************)
EXTENDS Integers, Sequences, FiniteSets, TLC

\* ------------------------------------------------------------ bounds
\* Longest category name handed to the classifier.
MaxNameLen == 3

\* The characters names are built from: the characters of the keywords that
\* sit in both lists or inside one another (u623F u79DF = "rent", in both
\* lists; u4FDD u96AA = "insurance", an expense keyword inside the income
\* keyword u4FDD u96AA u91D1; u7968 = "ticket", inside the income keyword
\* u80A1 u7968), of plain income keywords (u85AA u8CC7, u734E u91D1), one
\* character of no keyword (u660E) and the blank.
Alphabet == {"u623F", "u79DF", "u4FDD", "u96AA", "u91D1", "u7968", "u80A1",
             "u85AA", "u8CC7", "u734E", "u660E", " "}

\* ------------------------------------------------ categoryClassifier
INCOME_KEYWORDS ==
  <<
    <<"u85AA", "u8CC7">>, <<"u85AA", "u6C34">>, <<"u5DE5", "u8CC7">>, <<"u734E", "u91D1">>, <<"u6D25", "u8CBC">>, <<"u5E74", "u7D42">>, <<"u5206", "u7D05">>, <<"u4F63", "u91D1">>, <<"u63D0", "u6210">>,
    <<"u517C", "u8077">>, <<"u6253", "u5DE5">>, <<"u5916", "u5FEB">>, <<"u63A5", "u6848">>, <<"u4EE3", "u73ED">>, <<"u52A0", "u73ED", "u8CBB">>,
    <<"u6295", "u8CC7">>, <<"u80A1", "u7968">>, <<"u57FA", "u91D1">>, <<"u50B5", "u5238">>, <<"u5B9A", "u5B58">>, <<"u5229", "u606F">>, <<"u80A1", "u5229">>, <<"u80A1", "u606F">>, <<"u914D", "u606F">>,
    <<"u6536", "u76CA">>, <<"u5831", "u916C">>, <<"u7372", "u5229">>, <<"u76C8", "u5229">>, <<"u5206", "u606F">>,
    <<"u79DF", "u91D1">>, <<"u623F", "u79DF">>, <<"u5E97", "u79DF">>, <<"u79DF", "u8CC3">>, <<"u51FA", "u79DF">>,
    <<"u734E", "u5B78", "u91D1">>, <<"u88DC", "u52A9">>, <<"u9000", "u7A05">>, <<"u9000", "u6B3E">>, <<"u56DE", "u994B">>, <<"u73FE", "u91D1", "u56DE", "u994B">>, <<"u7D05", "u5229">>, <<"u9EDE", "u6578">>,
    <<"u8CE3", "u51FA">>, <<"u4E8C", "u624B">>, <<"u8F49", "u8CE3">>, <<"u8B8A", "u8CE3">>, <<"u4E2D", "u734E">>, <<"u734E", "u91D1">>, <<"u79AE", "u91D1">>, <<"u7D05", "u5305">>,
    <<"u9000", "u4F11", "u91D1">>, <<"u4FDD", "u96AA", "u91D1">>, <<"u7406", "u8CE0">>, <<"u88DC", "u511F">>
  >>

EXPENSE_KEYWORDS ==
  <<
    <<"u9910", "u98F2">>, <<"u98DF", "u7269">>, <<"u65E9", "u9910">>, <<"u5348", "u9910">>, <<"u665A", "u9910">>, <<"u5BB5", "u591C">>, <<"u98F2", "u6599">>, <<"u5496", "u5561">>, <<"u8336">>,
    <<"u96F6", "u98DF">>, <<"u6C34", "u679C">>, <<"u852C", "u83DC">>, <<"u8089", "u985E">>, <<"u6D77", "u9BAE">>, <<"u4FBF", "u7576">>, <<"u5916", "u98DF">>, <<"u805A", "u9910">>,
    <<"u9910", "u5EF3">>, <<"u5C0F", "u5403">>, <<"u901F", "u98DF">>, <<"u706B", "u934B">>, <<"u71D2", "u70E4">>, <<"u98F2", "u54C1">>, <<"u9152", "u985E">>,
    <<"u4EA4", "u901A">>, <<"u8A08", "u7A0B", "u8ECA">>, <<"u516C", "u8ECA">>, <<"u6377", "u904B">>, <<"u9AD8", "u9435">>, <<"u706B", "u8ECA">>, <<"u98DB", "u6A5F">>, <<"u6A5F", "u7968">>,
    <<"u6C7D", "u6CB9">>, <<"u505C", "u8ECA">>, <<"u904E", "u8DEF", "u8CBB">>, <<"u8ECA", "u8CC7">>, <<"u642D", "u8ECA">>, <<"u6CB9", "u8CBB">>, <<"u505C", "u8ECA", "u8CBB">>,
    <<"u904B", "u8CBB">>, <<"u5FEB", "u905E">>, <<"u5B85", "u914D">>, <<"u90F5", "u8CBB">>, <<"u904B", "u8F38">>,
    <<"u8CFC", "u7269">>, <<"u8CB7">>, <<"u8CFC", "u8CB7">>, <<"u5546", "u54C1">>, <<"u7528", "u54C1">>, <<"u670D", "u98FE">>, <<"u8863", "u670D">>, <<"u978B", "u5B50">>, <<"u5305", "u5305">>,
    <<"u5316", "u599D", "u54C1">>, <<"u4FDD", "u990A", "u54C1">>, <<"u96FB", "u5668">>, <<"3", "C">>, <<"u624B", "u6A5F">>, <<"u96FB", "u8166">>, <<"u5BB6", "u5177">>, <<"u88DD", "u6F62">>,
    <<"u66F8", "u7C4D">>, <<"u6587", "u5177">>, <<"u73A9", "u5177">>, <<"u79AE", "u7269">>, <<"u9001", "u79AE">>,
    <<"u5A1B", "u6A02">>, <<"u96FB", "u5F71">>, <<"u904A", "u6232">>, <<"u65C5", "u904A">>, <<"u65C5", "u884C">>, <<"u4F4F", "u5BBF">>, <<"u98EF", "u5E97">>, <<"u6C11", "u5BBF">>,
    <<"u9580", "u7968">>, <<"u7968">>, <<"u6F14", "u5531", "u6703">>, <<"u8868", "u6F14">>, <<"u5C55", "u89BD">>, <<"u904A", "u6A02", "u5712">>, <<"K", "T", "V">>, <<"u5531", "u6B4C">>,
    <<"u904B", "u52D5">>, <<"u5065", "u8EAB">>, <<"u6E38", "u6CF3">>, <<"u7403", "u985E">>, <<"u8AB2", "u7A0B">>, <<"u5B78", "u7FD2">>,
    <<"u5C45", "u4F4F">>, <<"u623F", "u79DF">>, <<"u6C34", "u96FB">>, <<"u74E6", "u65AF">>, <<"u96FB", "u8CBB">>, <<"u6C34", "u8CBB">>, <<"u7DB2", "u8DEF">>, <<"u96FB", "u8A71">>,
    <<"u6E05", "u6F54">>, <<"u6D17", "u8863">>, <<"u4FEE", "u7406">>, <<"u7DAD", "u4FEE">>, <<"u4FDD", "u990A">>, <<"u6E05", "u6F54", "u7528", "u54C1">>, <<"u751F", "u6D3B", "u7528", "u54C1">>,
    <<"u91AB", "u7642">>, <<"u770B", "u75C5">>, <<"u8A3A", "u6240">>, <<"u91AB", "u9662">>, <<"u85E5", "u54C1">>, <<"u85E5", "u5C40">>, <<"u4FDD", "u5065">>, <<"u5065", "u5EB7">>,
    <<"u7259", "u79D1">>, <<"u773C", "u79D1">>, <<"u9AD4", "u6AA2">>, <<"u75AB", "u82D7">>, <<"u6CBB", "u7642">>, <<"u5FA9", "u5065">>,
    <<"u6559", "u80B2">>, <<"u5B78", "u8CBB">>, <<"u88DC", "u7FD2">>, <<"u8AB2", "u7A0B">>, <<"u57F9", "u8A13">>, <<"u8003", "u8A66">>, <<"u8B49", "u7167">>, <<"u5B78", "u7FD2">>,
    <<"u66F8", "u7C4D">>, <<"u6559", "u6750">>, <<"u5B78", "u7528", "u54C1">>,
    <<"u4FDD", "u96AA">>, <<"u7A05", "u52D9">>, <<"u7A05", "u91D1">>, <<"u7F70", "u6B3E">>, <<"u624B", "u7E8C", "u8CBB">>, <<"u670D", "u52D9", "u8CBB">>, <<"u7BA1", "u7406", "u8CBB">>,
    <<"u5E74", "u8CBB">>, <<"u6708", "u8CBB">>, <<"u6703", "u54E1", "u8CBB">>, <<"u8A02", "u95B1">>
  >>

\* Confidence in hundredths: 0.6, 0.3 and 0.9.
ConfBase == 60
ConfStep == 30
ConfCap == 90

Whitespace == {" "}

\* String.prototype.includes
includes(name, keyword) ==
  \E i \in 0..(Len(name) - Len(keyword)) :
    \A j \in 1..Len(keyword) : name[i + j] = keyword[j]

\* String.prototype.trim
trim(s) ==
  LET inner == {i \in 1..Len(s) : s[i] \notin Whitespace}
  IN IF inner = {} THEN <<>>
     ELSE LET lo == CHOOSE i \in inner : \A j \in inner : i <= j
              hi == CHOOSE i \in inner : \A j \in inner : j <= i
          IN SubSeq(s, lo, hi)

\* A JavaScript value handed to the classifier: a string, or a value that
\* is none (undefined, a truthy number).
StringValue(chars) == [typeof |-> "string", chars |-> chars]
Undefined == [typeof |-> "undefined", chars |-> <<>>]
ANumber == [typeof |-> "number", chars |-> <<>>]

\* !v
Falsy(v) == v.typeof = "undefined" \/ (v.typeof = "string" /\ v.chars = <<>>)

\* The income-first variant: the two tests of classifyCategory swapped.
classifyCategoryIncomeFirst(categoryName) ==
  IF Falsy(categoryName) \/ categoryName.typeof # "string" THEN "null"
  ELSE LET name == trim(categoryName.chars)
           isIncome == \E i \in 1..Len(INCOME_KEYWORDS) : includes(name, INCOME_KEYWORDS[i])
           isExpense == \E i \in 1..Len(EXPENSE_KEYWORDS) : includes(name, EXPENSE_KEYWORDS[i])
       IN IF isIncome THEN "income"
          ELSE IF isExpense THEN "expense"
          ELSE "null"

classifyCategory(categoryName) ==
  IF Falsy(categoryName) \/ categoryName.typeof # "string" THEN "null"
  ELSE LET name == trim(categoryName.chars)
           isIncome == \E i \in 1..Len(INCOME_KEYWORDS) : includes(name, INCOME_KEYWORDS[i])
           isExpense == \E i \in 1..Len(EXPENSE_KEYWORDS) : includes(name, EXPENSE_KEYWORDS[i])
       IN IF isExpense THEN "expense"
          ELSE IF isIncome THEN "income"
          ELSE "null"

Min(a, b) == IF a < b THEN a ELSE b

\* The variant that counts the matches after the first: 0.6 for one match.
confidenceFromZero(matchCount) == Min(ConfCap, (matchCount - 1) * ConfStep + ConfBase)

\* The variant without the cap.
confidenceNoCap(matchCount) == matchCount * ConfStep + ConfBase

\* Math.min(0.9, matchingKeywords.length * 0.3 + 0.6)
confidence(matchCount) == Min(ConfCap, matchCount * ConfStep + ConfBase)

\* The variant that answers an unclassified name like a classified one.
getSuggestedTypeNoGuard(categoryName) ==
  LET type == classifyCategory(categoryName)
      name == trim(categoryName.chars)
      keywords == IF type = "income" THEN INCOME_KEYWORDS ELSE EXPENSE_KEYWORDS
      matchingKeywords == SelectSeq(keywords, LAMBDA keyword : includes(name, keyword))
  IN [type |-> type,
      confidence |-> confidence(Len(matchingKeywords)),
      reason |-> "matched",
      matchingKeywords |-> matchingKeywords]

getSuggestedType(categoryName) ==
  LET type == classifyCategory(categoryName)
  IN IF type = "null"
     THEN [type |-> "null", confidence |-> 0, reason |-> "undetermined"]
     ELSE LET name == trim(categoryName.chars)
              keywords == IF type = "income" THEN INCOME_KEYWORDS ELSE EXPENSE_KEYWORDS
              matchingKeywords == SelectSeq(keywords, LAMBDA keyword : includes(name, keyword))
          IN [type |-> type,
              confidence |-> confidence(Len(matchingKeywords)),
              reason |-> "matched",
              matchingKeywords |-> matchingKeywords]

\* colors.income / colors.expense of getRecommendedColor: the keyword entries
\* in the order Object.entries walks them, and the default entries.
IncomeColors ==
  <<
    <<<<"u85AA", "u8CC7">>, "#007bff">>,
    <<<<"u6295", "u8CC7">>, "#17a2b8">>,
    <<<<"u79DF", "u91D1">>, "#6f42c1">>,
    <<<<"u5176", "u4ED6">>, "#6c757d">>
  >>
ExpenseColors ==
  <<
    <<<<"u9910", "u98F2">>, "#fd7e14">>,
    <<<<"u4EA4", "u901A">>, "#6f42c1">>,
    <<<<"u8CFC", "u7269">>, "#e83e8c">>,
    <<<<"u5A1B", "u6A02">>, "#20c997">>,
    <<<<"u91AB", "u7642">>, "#dc3545">>,
    <<<<"u5C45", "u4F4F">>, "#6c757d">>,
    <<<<"u6559", "u80B2">>, "#007bff">>,
    <<<<"u5176", "u4ED6">>, "#343a40">>
  >>
IncomeDefaultColor == "#28a745"
ExpenseDefaultColor == "#dc3545"
UnknownTypeColor == "#6c757d"

\* The outcome of a call: a value returned, or an exception thrown.
Returned(value) == [threw |-> FALSE, value |-> value]
Threw == [threw |-> TRUE, value |-> "TypeError"]

\* getRecommendedColor(type, categoryName): categoryName.trim() is called on
\* whatever value the name is, once colors[type] exists.
getRecommendedColor(type, categoryName) ==
  IF type \notin {"income", "expense"} THEN Returned(UnknownTypeColor)
  ELSE IF categoryName.typeof # "string" THEN Threw
  ELSE LET typeColors == IF type = "income" THEN IncomeColors ELSE ExpenseColors
           name == trim(categoryName.chars)
           hits == {i \in 1..Len(typeColors) : includes(name, typeColors[i][1])}
       IN IF hits = {}
          THEN Returned(IF type = "income" THEN IncomeDefaultColor ELSE ExpenseDefaultColor)
          ELSE Returned(typeColors[CHOOSE i \in hits : \A j \in hits : i <= j][2])

\* The names the classifier is called with.
Names == UNION {[1..n -> Alphabet] : n \in 0..MaxNameLen}
ClassifierInputs == {StringValue(s) : s \in Names} \cup {Undefined, ANumber}

\* ------------------------------------------------------- request inputs
\* Authenticated users (req.user.id); the users table itself is not modelled.
Users == {1, 2}

\* Category types and the default colour.
Types == {"income", "expense"}
DefaultColor == "#007bff"

\* Amounts in cents and transaction dates (yyyymmdd) of the requests.
Amounts == {10, 30}
Dates == {20250115, 20250131, 20250201}

\* An optional request field is the empty set or a singleton.
Absent == {}

\* The handlers of concurrent requests in flight.
Procs == {"a", "b"}

\* AUTO_INCREMENT ids handed out at most, per table.
MaxCategories == 2
MaxExpenses == 2

\* ------------------------------------------------------------- state
VARIABLES
  clsArg,      \* the value the classifier was last called with
  clsRet,      \* what it returned: [fn, value], fn = "none" before any call
  categories,  \* table categories: rows [id, user_id, name, type, color]
  expenses,    \* table expenses: rows [id, user_id, category_id, amount, transaction_date]
  catAutoInc,  \* next AUTO_INCREMENT id of categories
  expAutoInc,  \* next AUTO_INCREMENT id of expenses
  req,         \* per handler in flight: the request, its position and its locals
  resp         \* the responses sent by the last step: [proc, op, status, ...]

vars == <<clsArg, clsRet, categories, expenses, catAutoInc, expAutoInc, req, resp>>
dbVars == <<categories, expenses, catAutoInc, expAutoInc, req, resp>>
clsVars == <<clsArg, clsRet>>

NotCalled == [fn |-> "none"]
Idle == [op |-> "idle", pc |-> "done"]
NoResponse == {}

\* ------------------------------------------------ classifier calls
CallClassifyCategory ==
  /\ clsRet' = [fn |-> "classifyCategory", value |-> classifyCategory(clsArg)]
  /\ UNCHANGED <<clsArg, dbVars>>

CallGetSuggestedType ==
  /\ clsRet' = [fn |-> "getSuggestedType", value |-> getSuggestedType(clsArg)]
  /\ UNCHANGED <<clsArg, dbVars>>

\* initializeTables: both tables empty, no request in flight.
InitDb ==
  /\ categories = {}
  /\ expenses = {}
  /\ catAutoInc = 1
  /\ expAutoInc = 1
  /\ req = [p \in Procs |-> Idle]
  /\ resp = NoResponse

InitClassify ==
  /\ clsArg \in ClassifierInputs
  /\ clsRet = NotCalled
  /\ InitDb

NextClassify == CallClassifyCategory \/ CallGetSuggestedType

SpecClassify == InitClassify /\ [][NextClassify]_vars

\* The three exported functions called with any name, and the colour with
\* any type: what each call returns, or that it threw.
ColorTypes == {"income", "expense", "transfer"}

CallGetRecommendedColor(type) ==
  /\ clsRet' = [fn |-> "getRecommendedColor", type |-> type,
                outcome |-> getRecommendedColor(type, clsArg)]
  /\ UNCHANGED <<clsArg, dbVars>>

CallClassifyCategoryOutcome ==
  /\ clsRet' = [fn |-> "classifyCategory", outcome |-> Returned(classifyCategory(clsArg))]
  /\ UNCHANGED <<clsArg, dbVars>>

CallGetSuggestedTypeOutcome ==
  /\ clsRet' = [fn |-> "getSuggestedType", outcome |-> Returned(getSuggestedType(clsArg))]
  /\ UNCHANGED <<clsArg, dbVars>>

NextExports ==
  \/ CallClassifyCategoryOutcome
  \/ CallGetSuggestedTypeOutcome
  \/ \E type \in ColorTypes : CallGetRecommendedColor(type)

SpecExports == InitClassify /\ [][NextExports]_vars

\* ------------------------------------------------------------- queries
\* The database a statement runs against.
DB == [categories |-> categories, expenses |-> expenses,
       catAutoInc |-> catAutoInc, expAutoInc |-> expAutoInc]

\* SELECT * FROM categories WHERE id = ?
Category_findById(db, id) == {c \in db.categories : c.id = id}

\* The variant without AND type = ?
Category_findByUserAndNameAnyType(db, userId, name, type) ==
  {c \in db.categories : c.user_id = userId /\ c.name = name}

\* SELECT * FROM categories WHERE user_id = ? AND name = ? AND type = ?
Category_findByUserAndName(db, userId, name, type) ==
  {c \in db.categories : c.user_id = userId /\ c.name = name /\ c.type = type}

\* The variant without AND user_id = ?
Category_belongsToAnyUser(db, categoryId, userId) ==
  \E c \in db.categories : c.id = categoryId

\* SELECT id FROM categories WHERE id = ? AND user_id = ?  (results.length > 0)
Category_belongsToUser(db, categoryId, userId) ==
  \E c \in db.categories : c.id = categoryId /\ c.user_id = userId

\* SELECT COUNT(*) FROM expenses WHERE category_id = ?
Category_getExpenseCount(db, categoryId) ==
  Cardinality({e \in db.expenses : e.category_id = categoryId})

\* SELECT e.*, c.name ... FROM expenses e JOIN categories c ... WHERE e.id = ?
Expense_findById(db, id) ==
  {e \in db.expenses : e.id = id /\ \E c \in db.categories : c.id = e.category_id}

\* The variant of the schema without the foreign key.
NoForeignKey(exps, cats) == TRUE

\* FOREIGN KEY (category_id) REFERENCES categories(id) ON DELETE RESTRICT
ForeignKeyHolds(exps, cats) ==
  \A e \in exps : \E c \in cats : c.id = e.category_id

\* A handler's state after a statement: the database and the request.
After(db, r) == [db |-> db, r |-> r]

\* The response sent: the handler is done.
Respond(r, status) == [r EXCEPT !.pc = "done", !.status = status]

\* ------------------------------------- POST /api/categories (createCategory)
createCategory(userId, name, type, color) ==
  [op |-> "createCategory", pc |-> "findByUserAndName", status |-> 0, insertId |-> 0,
   user |-> userId, name |-> name, type |-> type,
   color |-> IF color = Absent THEN DefaultColor ELSE CHOOSE x \in color : TRUE]

createCategory_step(db, r) ==
  CASE r.pc = "findByUserAndName" ->
         \* Category.create: the name is taken: 409
         IF Category_findByUserAndName(db, r.user, r.name, r.type) # {}
         THEN After(db, Respond(r, 409))
         ELSE After(db, [r EXCEPT !.pc = "insert"])
    [] r.pc = "insert" ->
         \* INSERT INTO categories (user_id, name, type, color)
         After([db EXCEPT !.categories = @ \cup
                    {[id |-> db.catAutoInc, user_id |-> r.user, name |-> r.name,
                      type |-> r.type, color |-> r.color]},
                  !.catAutoInc = @ + 1],
               [r EXCEPT !.pc = "findById", !.insertId = db.catAutoInc])
    [] r.pc = "findById" ->
         \* findById(result.insertId); newCategory.id throws on null: 500
         After(db, Respond(r, IF Category_findById(db, r.insertId) = {} THEN 500 ELSE 201))

\* ------------------- POST /api/categories/init-defaults (initDefaultCategories)
\* Category.createDefaultCategories: the ten default categories, in order.
defaultCategories ==
  << [name |-> <<"u85AA", "u8CC7">>, type |-> "income", color |-> "#28a745"],
     [name |-> <<"u6295", "u8CC7", "u6536", "u76CA">>, type |-> "income", color |-> "#17a2b8"],
     [name |-> <<"u5176", "u4ED6", "u6536", "u5165">>, type |-> "income", color |-> "#6c757d"],
     [name |-> <<"u9910", "u98F2">>, type |-> "expense", color |-> "#fd7e14"],
     [name |-> <<"u4EA4", "u901A">>, type |-> "expense", color |-> "#6f42c1"],
     [name |-> <<"u8CFC", "u7269">>, type |-> "expense", color |-> "#e83e8c"],
     [name |-> <<"u5A1B", "u6A02">>, type |-> "expense", color |-> "#20c997"],
     [name |-> <<"u91AB", "u7642">>, type |-> "expense", color |-> "#dc3545"],
     [name |-> <<"u5C45", "u4F4F">>, type |-> "expense", color |-> "#6c757d"],
     [name |-> <<"u5176", "u4ED6", "u652F", "u51FA">>, type |-> "expense", color |-> "#343a40"] >>

\* The variant that looks among the categories of every user
Category_existingAnyUser(db, categoryData) ==
  {c \in db.categories : c.name = categoryData.name /\ c.type = categoryData.type}

\* Category.create: existingCategory = findByUserAndName(user_id, name, type)
Category_existing(db, categoryData) ==
  Category_findByUserAndName(db, categoryData.user_id, categoryData.name, categoryData.type)

\* k is the default category Category.create is working on; createdCategories
\* holds the ids of the categories pushed so far, 0 for a null.
initDefaultCategories(userId) ==
  [op |-> "initDefaultCategories", pc |-> "findByUserAndName", status |-> 0, insertId |-> 0,
   user |-> userId, k |-> 1, createdCategories |-> <<>>]

initDefaultCategories_step(db, r) ==
  LET categoryData == [user_id |-> r.user] @@ defaultCategories[r.k]
      \* the next default category, or the response: category.toJSON() throws
      \* on a null: 500
      next(q) == IF q.k < Len(defaultCategories)
                 THEN [q EXCEPT !.pc = "findByUserAndName", !.k = @ + 1]
                 ELSE Respond(q, IF \E i \in DOMAIN q.createdCategories :
                                       q.createdCategories[i] = 0
                                 THEN 500 ELSE 201)
  IN
  CASE r.pc = "findByUserAndName" ->
         \* Category.create throws '...分類名稱已存在': skipped
         IF Category_existing(db, categoryData) # {}
         THEN After(db, next(r))
         ELSE After(db, [r EXCEPT !.pc = "insert"])
    [] r.pc = "insert" ->
         \* INSERT INTO categories (user_id, name, type, color)
         After([db EXCEPT !.categories = @ \cup {[id |-> db.catAutoInc] @@ categoryData},
                  !.catAutoInc = @ + 1],
               [r EXCEPT !.pc = "findById", !.insertId = db.catAutoInc])
    [] r.pc = "findById" ->
         \* createdCategories.push(findById(result.insertId))
         After(db, next([r EXCEPT !.createdCategories =
                           Append(@, IF Category_findById(db, r.insertId) = {} THEN 0
                                     ELSE r.insertId)]))

\* -------------------------------------- PUT /api/categories/:id (updateCategory)
\* The request body: each of name, color and type is absent or given.
updateCategory(userId, categoryId, body) ==
  [op |-> "updateCategory", pc |-> "findById", status |-> 0, user |-> userId,
   id |-> categoryId, body |-> body, existingType |-> "none"]

\* The variant that also writes the body's type.
Category_updateWithType(row, updateData) ==
  [row EXCEPT !.name = IF updateData.name = Absent THEN @ ELSE CHOOSE x \in updateData.name : TRUE,
              !.color = IF updateData.color = Absent THEN @ ELSE CHOOSE x \in updateData.color : TRUE,
              !.type = IF updateData.type = Absent THEN @ ELSE CHOOSE x \in updateData.type : TRUE]

\* UPDATE categories SET name = ?, color = ? WHERE id = ?  (the fields given)
Category_update(row, updateData) ==
  [row EXCEPT !.name = IF updateData.name = Absent THEN @ ELSE CHOOSE x \in updateData.name : TRUE,
              !.color = IF updateData.color = Absent THEN @ ELSE CHOOSE x \in updateData.color : TRUE]

updateCategory_step(db, r) ==
  LET \* Category.update throws before its query when neither name nor color is given: 500
      toUpdate(q) == IF q.body.name = Absent /\ q.body.color = Absent
                     THEN Respond(q, 500)
                     ELSE [q EXCEPT !.pc = "update"]
  IN
  CASE r.pc = "findById" ->
         \* Category.findById and the ownership check: 404, 403; a new name
         \* is looked up first
         LET existingCategory == Category_findById(db, r.id)
         IN IF existingCategory = {} THEN After(db, Respond(r, 404))
            ELSE IF \E c \in existingCategory : c.user_id # r.user
                 THEN After(db, Respond(r, 403))
            ELSE LET c == CHOOSE x \in existingCategory : TRUE
                 IN IF r.body.name # Absent /\ r.body.name # {c.name}
                    THEN After(db, [r EXCEPT !.pc = "findByUserAndName",
                                             !.existingType = c.type])
                    ELSE After(db, toUpdate(r))
    [] r.pc = "findByUserAndName" ->
         \* the name is taken by a category of the user with the same type: 409
         IF \E n \in r.body.name :
              Category_findByUserAndName(db, r.user, n, r.existingType) # {}
         THEN After(db, Respond(r, 409))
         ELSE After(db, toUpdate(r))
    [] r.pc = "update" ->
         After([db EXCEPT !.categories =
                  {IF c.id = r.id THEN Category_update(c, r.body) ELSE c : c \in @}],
               [r EXCEPT !.pc = "findByIdAfter"])
    [] r.pc = "findByIdAfter" ->
         \* findById(id); updatedCategory.toJSON() throws on null: 500
         \* else 200 with data.category
         LET updatedCategory == Category_findById(db, r.id)
         IN IF updatedCategory = {} THEN After(db, Respond(r, 500))
            ELSE After(db, [data |-> [category |-> CHOOSE c \in updatedCategory : TRUE]]
                             @@ Respond(r, 200))

\* ------------------------------------ GET /api/categories/:id (getCategoryById)
getCategoryById(userId, categoryId) ==
  [op |-> "getCategoryById", pc |-> "findById", status |-> 0, user |-> userId,
   id |-> categoryId]

getCategoryById_step(db, r) ==
  \* Category.findById and the ownership check: 404, 403, else 200 with
  \* data.category
  LET category == Category_findById(db, r.id)
  IN IF category = {} THEN After(db, Respond(r, 404))
     ELSE IF \E c \in category : c.user_id # r.user THEN After(db, Respond(r, 403))
     ELSE After(db, [data |-> [category |-> CHOOSE c \in category : TRUE]]
                      @@ Respond(r, 200))

\* --------------------------------------- POST /api/expenses (createExpense)
\* validateExpense: body('amount').isFloat({min: 0.01, max: 9999999.99}), in cents
MinAmount == 1
MaxAmount == 999999999
validateExpense(amount) == amount >= MinAmount /\ amount <= MaxAmount

createExpense(userId, category_id, amount, transaction_date) ==
  [op |-> "createExpense", pc |-> "belongsToUser", status |-> 0, insertId |-> 0,
   user |-> userId, category_id |-> category_id, amount |-> amount,
   transaction_date |-> transaction_date]

createExpense_step(db, r) ==
  CASE r.pc = "belongsToUser" ->
         \* validateExpense, ahead of the handler: 400; then Expense.create:
         \* not the user's category: 400
         IF validateExpense(r.amount) /\ Category_belongsToUser(db, r.category_id, r.user)
         THEN After(db, [r EXCEPT !.pc = "insert"])
         ELSE After(db, Respond(r, 400))
    [] r.pc = "insert" ->
         \* INSERT INTO expenses; the foreign key fails the statement when the
         \* category is gone (500), and InnoDB has taken the id by then
         LET row == [id |-> db.expAutoInc, user_id |-> r.user,
                     category_id |-> r.category_id, amount |-> r.amount,
                     transaction_date |-> r.transaction_date]
         IN IF ForeignKeyHolds({row}, db.categories)
            THEN After([db EXCEPT !.expenses = @ \cup {row}, !.expAutoInc = @ + 1],
                       [r EXCEPT !.pc = "findById", !.insertId = db.expAutoInc])
            ELSE After([db EXCEPT !.expAutoInc = @ + 1], Respond(r, 500))
    [] r.pc = "findById" ->
         \* findById(result.insertId); newExpense.id throws on null: 500
         After(db, Respond(r, IF Expense_findById(db, r.insertId) = {} THEN 500 ELSE 201))

\* --------------------------------------- PUT /api/expenses/:id (updateExpense)
\* validateExpense requires amount, category_id and transaction_date.
updateExpense(userId, id, category_id, amount, transaction_date) ==
  [op |-> "updateExpense", pc |-> "findById", status |-> 0, user |-> userId, id |-> id,
   category_id |-> category_id, amount |-> amount, transaction_date |-> transaction_date]

updateExpense_step(db, r) ==
  CASE r.pc = "findById" ->
         \* Expense.update: no such record, or another user's: 403
         \* (validateExpense, ahead of the handler: 400)
         LET existingExpense == Expense_findById(db, r.id)
         IN IF ~validateExpense(r.amount) THEN After(db, Respond(r, 400))
            ELSE IF existingExpense = {} \/ \E e \in existingExpense : e.user_id # r.user
            THEN After(db, Respond(r, 403))
            ELSE After(db, [r EXCEPT !.pc = "belongsToUser"])
    [] r.pc = "belongsToUser" ->
         \* not the user's category: 400
         IF Category_belongsToUser(db, r.category_id, r.user)
         THEN After(db, [r EXCEPT !.pc = "update"])
         ELSE After(db, Respond(r, 400))
    [] r.pc = "update" ->
         \* UPDATE expenses SET category_id = ?, amount = ?, transaction_date = ?
         \* WHERE id = ?; the foreign key fails the statement when the new
         \* category is gone (500); no row matched is no error
         LET updated == {[e EXCEPT !.category_id = r.category_id, !.amount = r.amount,
                                   !.transaction_date = r.transaction_date] :
                           e \in {x \in db.expenses : x.id = r.id}}
             others == {x \in db.expenses : x.id # r.id}
         IN IF ~ForeignKeyHolds(updated, db.categories)
            THEN After(db, Respond(r, 500))
            ELSE After([db EXCEPT !.expenses = others \cup updated],
                       [r EXCEPT !.pc = "findByIdAfter"])
    [] r.pc = "findByIdAfter" ->
         \* return await this.findById(id); null: 404
         \* else 200 with data.expense
         LET updatedExpense == Expense_findById(db, r.id)
         IN IF updatedExpense = {} THEN After(db, Respond(r, 404))
            ELSE After(db, [data |-> [expense |-> CHOOSE e \in updatedExpense : TRUE]]
                             @@ Respond(r, 200))

\* ------------------------------------ GET /api/expenses/:id (getExpenseById)
getExpenseById(userId, id) ==
  [op |-> "getExpenseById", pc |-> "findById", status |-> 0, user |-> userId, id |-> id]

\* The variant without the ownership check.
getExpenseByIdAnyOwner_step(db, r) ==
  LET expense == Expense_findById(db, r.id)
  IN IF expense = {} THEN After(db, Respond(r, 404))
     ELSE After(db, [data |-> [expense |-> CHOOSE e \in expense : TRUE]]
                      @@ Respond(r, 200))

getExpenseById_step(db, r) ==
  \* Expense.findById and the ownership check: 404, 403, else 200 with
  \* data.expense
  LET expense == Expense_findById(db, r.id)
  IN IF expense = {} THEN After(db, Respond(r, 404))
     ELSE IF \E e \in expense : e.user_id # r.user THEN After(db, Respond(r, 403))
     ELSE After(db, [data |-> [expense |-> CHOOSE e \in expense : TRUE]]
                      @@ Respond(r, 200))

\* ------------------------------------- POST /api/expenses/quick (quickExpense)
\* new Date().toISOString().split('T')[0]
Today == 20250201

\* The variant whose fallback is 'income'.
finalTypeIncomeFallback(type, categoryName) ==
  IF type = Absent
  THEN LET suggestion == getSuggestedType(StringValue(categoryName))
       IN IF suggestion.type # "null" THEN suggestion.type ELSE "income"
  ELSE CHOOSE t \in type : TRUE

\* let finalType = type; without a type the suggested type of the name is
\* taken, 'expense' when there is none.
finalType(type, categoryName) ==
  IF type = Absent
  THEN LET suggestion == getSuggestedType(StringValue(categoryName))
       IN IF suggestion.type # "null" THEN suggestion.type ELSE "expense"
  ELSE CHOOSE t \in type : TRUE

\* The body's amount and type are absent or given; categoryName is a string.
quickExpense(userId, amount, categoryName, type) ==
  [op |-> "quickExpense", pc |-> "findByUserAndName", status |-> 0, insertId |-> 0,
   user |-> userId, amount |-> amount, categoryName |-> categoryName, type |-> type,
   finalType |-> finalType(type, categoryName),
   color |-> DefaultColor, category_id |-> 0, created |-> FALSE,
   transaction_date |-> Today]

quickExpense_step(db, r) ==
  CASE r.pc = "findByUserAndName" ->
         \* the user's category of that name and type, results[0]; none: the
         \* recommended color, then Category.create
         LET category == Category_findByUserAndName(db, r.user, r.categoryName, r.finalType)
             recommendedColor == getRecommendedColor(r.finalType, StringValue(r.categoryName))
         IN IF category # {}
            THEN After(db, [r EXCEPT !.pc = "belongsToUser",
                                     !.category_id =
                                        CHOOSE i \in {c.id : c \in category} :
                                          \A c \in category : i <= c.id])
            ELSE IF recommendedColor.threw THEN After(db, Respond(r, 500))
            ELSE After(db, [r EXCEPT !.pc = "Category.findByUserAndName",
                                     !.color = recommendedColor.value])
    [] r.pc = "Category.findByUserAndName" ->
         \* Category.create: the name is taken by now: it throws, 500
         IF Category_findByUserAndName(db, r.user, r.categoryName, r.finalType) # {}
         THEN After(db, Respond(r, 500))
         ELSE After(db, [r EXCEPT !.pc = "Category.insert"])
    [] r.pc = "Category.insert" ->
         \* INSERT INTO categories; type is ENUM('income', 'expense'): another
         \* value fails the statement, 500
         IF r.finalType \notin Types THEN After(db, Respond(r, 500))
         ELSE After([db EXCEPT !.categories = @ \cup
                         {[id |-> db.catAutoInc, user_id |-> r.user, name |-> r.categoryName,
                           type |-> r.finalType, color |-> r.color]},
                       !.catAutoInc = @ + 1],
                    [r EXCEPT !.pc = "Category.findById", !.category_id = db.catAutoInc,
                              !.created = TRUE])
    [] r.pc = "Category.findById" ->
         \* findById(result.insertId); category.id throws on null: 500
         IF Category_findById(db, r.category_id) = {} THEN After(db, Respond(r, 500))
         ELSE After(db, [r EXCEPT !.pc = "belongsToUser"])
    [] r.pc = "belongsToUser" ->
         \* Expense.create throws: 500
         IF Category_belongsToUser(db, r.category_id, r.user)
         THEN After(db, [r EXCEPT !.pc = "insert"])
         ELSE After(db, Respond(r, 500))
    [] r.pc = "insert" ->
         \* INSERT INTO expenses; pool.execute throws on an undefined
         \* parameter, the amount the body did not give: 500
         IF r.amount = Absent THEN After(db, Respond(r, 500))
         ELSE LET row == [id |-> db.expAutoInc, user_id |-> r.user,
                          category_id |-> r.category_id,
                          amount |-> CHOOSE a \in r.amount : TRUE,
                          transaction_date |-> r.transaction_date]
              IN IF ForeignKeyHolds({row}, db.categories)
                 THEN After([db EXCEPT !.expenses = @ \cup {row}, !.expAutoInc = @ + 1],
                            [r EXCEPT !.pc = "findById", !.insertId = db.expAutoInc])
                 ELSE After([db EXCEPT !.expAutoInc = @ + 1], Respond(r, 500))
    [] r.pc = "findById" ->
         After(db, Respond(r, IF Expense_findById(db, r.insertId) = {} THEN 500 ELSE 201))

\* -------------------------------- POST /api/expenses/bulk-import (bulkImport)
\* expenses.length > 100
MaxImport == 100

\* {user_id: userId, ...expenseData}: a user_id of the record replaces the
\* requester's.
Spread(userId, expenseData) ==
  [user_id |-> IF expenseData.user_id = Absent THEN userId
               ELSE CHOOSE u \in expenseData.user_id : TRUE,
   category_id |-> expenseData.category_id, amount |-> expenseData.amount,
   transaction_date |-> expenseData.transaction_date]

\* The body's expenses: an array of records, each with or without a user_id,
\* or a value that is no array (isArray FALSE). i is the index of the record
\* Expense.create is working on; success and failed hold the indices pushed
\* so far.
bulkImport(userId, isArray, records) ==
  [op |-> "bulkImport", pc |-> "length", status |-> 0, insertId |-> 0, user |-> userId,
   isArray |-> isArray, expenses |-> records, i |-> 0, success |-> <<>>, failed |-> <<>>]

\* The variant that answers 201 whatever failed
statusCodeCreated(failed) == 201

\* results.failed.length > 0 ? 207 : 201
statusCode(failed) == IF Len(failed) > 0 THEN 207 ELSE 201

bulkImport_step(db, r) ==
  LET \* i++, then the next record, or the response
      next(q) == IF q.i + 1 < Len(q.expenses)
                 THEN [q EXCEPT !.pc = "belongsToUser", !.i = @ + 1]
                 ELSE Respond(q, statusCode(q.failed))
      succeeded == next([r EXCEPT !.success = Append(@, r.i)])
      failed == next([r EXCEPT !.failed = Append(@, r.i)])
      \* expenses[i]; the model's sequences start at 1
      expenseData == Spread(r.user, r.expenses[r.i + 1])
  IN
  CASE r.pc = "length" ->
         \* no array, an empty one, or more than 100 records: 400
         IF ~r.isArray \/ Len(r.expenses) = 0 \/ Len(r.expenses) > MaxImport
         THEN After(db, Respond(r, 400))
         ELSE After(db, [r EXCEPT !.pc = "belongsToUser"])
    [] r.pc = "belongsToUser" ->
         \* Expense.create of record i: not the category of its user_id: failed
         IF Category_belongsToUser(db, expenseData.category_id, expenseData.user_id)
         THEN After(db, [r EXCEPT !.pc = "insert"])
         ELSE After(db, failed)
    [] r.pc = "insert" ->
         LET row == [id |-> db.expAutoInc] @@ expenseData
         IN IF ForeignKeyHolds({row}, db.categories)
            THEN After([db EXCEPT !.expenses = @ \cup {row}, !.expAutoInc = @ + 1],
                       [r EXCEPT !.pc = "findById", !.insertId = db.expAutoInc])
            ELSE After([db EXCEPT !.expAutoInc = @ + 1], failed)
    [] r.pc = "findById" ->
         \* findById(result.insertId); newExpense.toJSON() throws on null: failed
         IF Expense_findById(db, r.insertId) = {} THEN After(db, failed)
         ELSE After(db, succeeded)

\* ------------------------------------ DELETE /api/expenses/:id (deleteExpense)
deleteExpense(userId, id) ==
  [op |-> "deleteExpense", pc |-> "select", status |-> 0, user |-> userId, id |-> id]

deleteExpense_step(db, r) ==
  CASE r.pc = "select" ->
         \* SELECT user_id FROM expenses WHERE id = ?: 404, 403
         LET results == {e \in db.expenses : e.id = r.id}
         IN IF results = {} THEN After(db, Respond(r, 404))
            ELSE IF \E e \in results : e.user_id # r.user THEN After(db, Respond(r, 403))
            ELSE After(db, [r EXCEPT !.pc = "delete"])
    [] r.pc = "delete" ->
         \* DELETE FROM expenses WHERE id = ?; affectedRows > 0
         LET remaining == {e \in db.expenses : e.id # r.id}
         IN After([db EXCEPT !.expenses = remaining],
                  Respond(r, IF remaining # db.expenses THEN 200 ELSE 400))

\* ---------------------------------- DELETE /api/categories/:id (deleteCategory)
deleteCategory(userId, categoryId) ==
  [op |-> "deleteCategory", pc |-> "findById", status |-> 0, user |-> userId,
   id |-> categoryId]

deleteCategory_step(db, r) ==
  CASE r.pc = "findById" ->
         \* Category.findById and the ownership check: 404, 403
         LET existingCategory == Category_findById(db, r.id)
         IN IF existingCategory = {} THEN After(db, Respond(r, 404))
            ELSE IF \E c \in existingCategory : c.user_id # r.user
                 THEN After(db, Respond(r, 403))
            ELSE After(db, [r EXCEPT !.pc = "getExpenseCount"])
    [] r.pc = "getExpenseCount" ->
         \* Category.delete: transactions use the category: 409
         IF Category_getExpenseCount(db, r.id) > 0
         THEN After(db, Respond(r, 409))
         ELSE After(db, [r EXCEPT !.pc = "delete"])
    [] r.pc = "delete" ->
         \* DELETE FROM categories WHERE id = ?; ON DELETE RESTRICT fails the
         \* statement while a row references the category: the generic 500
         LET remaining == {c \in db.categories : c.id # r.id}
         IN IF ~ForeignKeyHolds(db.expenses, remaining)
            THEN After(db, Respond(r, 500))
            ELSE After([db EXCEPT !.categories = remaining],
                       Respond(r, IF remaining # db.categories THEN 200 ELSE 400))

\* ------------------------------- GET /api/expenses/statistics (getStatistics)
\* The variant with > and < for >= and <=
dateConditionExclusive(e, startDate, endDate) ==
  /\ \A d \in startDate : e.transaction_date > d
  /\ \A d \in endDate : e.transaction_date < d

\* WHERE e.user_id = ? [AND e.transaction_date >= ?] [AND e.transaction_date <= ?]
\* over expenses e JOIN categories c ON e.category_id = c.id
dateCondition(e, startDate, endDate) ==
  /\ \A d \in startDate : e.transaction_date >= d
  /\ \A d \in endDate : e.transaction_date <= d

Joined(db, userId, startDate, endDate) ==
  {e \in db.expenses :
     /\ e.user_id = userId
     /\ \E c \in db.categories : c.id = e.category_id
     /\ dateCondition(e, startDate, endDate)}

CategoryOf(db, e) == CHOOSE c \in db.categories : c.id = e.category_id

\* SUM(e.amount) of a group, exact in DECIMAL(10,2): cents.
RECURSIVE SUM(_)
SUM(rows) ==
  IF rows = {} THEN 0
  ELSE LET e == CHOOSE x \in rows : TRUE IN e.amount + SUM(rows \ {e})

\* The variant without WHERE e.user_id = ?
summaryQueryAllUsers(db, userId, startDate, endDate) ==
  LET rows == {e \in db.expenses : dateCondition(e, startDate, endDate)}
      group(t) == {e \in rows : CategoryOf(db, e).type = t}
  IN {[type |-> t, total |-> SUM(group(t)), count |-> Cardinality(group(t))] :
        t \in {CategoryOf(db, e).type : e \in rows}}

\* SELECT c.type, SUM(e.amount), COUNT(e.id) ... GROUP BY c.type
summaryQuery(db, userId, startDate, endDate) ==
  LET rows == Joined(db, userId, startDate, endDate)
      group(t) == {e \in rows : CategoryOf(db, e).type = t}
  IN {[type |-> t, total |-> SUM(group(t)), count |-> Cardinality(group(t))] :
        t \in {CategoryOf(db, e).type : e \in rows}}

\* A JavaScript number (binary64) close to a two-decimal value: the one that
\* lies `ulps` representable values above the binary64 nearest to nearest/100.
Number(nearest, ulps) == [nearest |-> nearest, ulps |-> ulps]

\* parseFloat of a DECIMAL(10,2) value: the binary64 nearest to it.
parseFloat(decimal) == Number(decimal, 0)

\* The two-decimal values whose binary64 differences are tabulated: 0.00, 0.10 .. 1.20
Tabulated == {10 * i : i \in 0..12}

\* <<a, b, k>>: parseFloat(a) - parseFloat(b), rounded to binary64, lies k
\* representable values above parseFloat(a - b); the pairs left out give
\* parseFloat(a - b) itself (0.30 - 0.10 is 0.19999999999999998).
Binary64Drift ==
  {
    <<10, 30, 1>>, <<10, 40, -1>>, <<10, 80, -1>>, <<10, 120, 1>>,
    <<20, 30, 2>>, <<20, 60, 1>>, <<20, 70, 1>>, <<20, 80, -1>>, <<20, 110, -1>>,
    <<30, 10, -1>>, <<30, 20, -2>>, <<30, 40, -2>>, <<30, 70, 1>>, <<30, 90, -1>>, <<30, 120, 1>>,
    <<40, 10, 1>>, <<40, 30, 2>>, <<40, 50, 2>>, <<40, 60, 2>>, <<40, 70, 1>>, <<40, 110, -1>>, <<40, 120, 1>>,
    <<50, 40, -2>>, <<50, 60, 2>>, <<50, 70, 2>>, <<50, 80, -1>>, <<50, 110, -1>>,
    <<60, 20, -1>>, <<60, 40, -2>>, <<60, 50, -2>>, <<60, 70, 2>>, <<60, 80, -2>>, <<60, 90, -1>>, <<60, 110, -1>>,
    <<70, 20, -1>>, <<70, 30, -1>>, <<70, 40, -1>>, <<70, 50, -2>>, <<70, 60, -2>>, <<70, 80, -6>>, <<70, 90, -2>>, <<70, 100, -1>>, <<70, 110, -2>>,
    <<80, 10, 1>>, <<80, 20, 1>>, <<80, 50, 1>>, <<80, 60, 2>>, <<80, 70, 6>>, <<80, 90, 2>>, <<80, 100, 2>>, <<80, 110, -1>>, <<80, 120, 2>>,
    <<90, 30, 1>>, <<90, 60, 1>>, <<90, 70, 2>>, <<90, 80, -2>>, <<90, 100, 2>>, <<90, 110, -2>>, <<90, 120, 1>>,
    <<100, 70, 1>>, <<100, 80, -2>>, <<100, 90, -2>>, <<100, 110, -6>>, <<100, 120, 2>>,
    <<110, 20, 1>>, <<110, 40, 1>>, <<110, 50, 1>>, <<110, 60, 1>>, <<110, 70, 2>>, <<110, 80, 1>>, <<110, 90, 2>>, <<110, 100, 6>>, <<110, 120, 10>>,
    <<120, 10, -1>>, <<120, 30, -1>>, <<120, 40, -1>>, <<120, 80, -2>>, <<120, 90, -1>>, <<120, 100, -2>>, <<120, 110, -10>> }

\* x - y of two numbers that came from parseFloat
Minus(x, y) ==
  LET drift == [a \in Tabulated, b \in Tabulated |->
                  IF \E t \in Binary64Drift : t[1] = a /\ t[2] = b
                  THEN (CHOOSE t \in Binary64Drift : t[1] = a /\ t[2] = b)[3]
                  ELSE 0]
  IN Number(x.nearest - y.nearest, drift[x.nearest, y.nearest])

\* summary = {income: {0, 0}, expense: {0, 0}, balance: 0}; the rows are
\* assigned over it, then balance = income.total - expense.total.
summary(summaryResults) ==
  LET entry(t) ==
        IF \E row \in summaryResults : row.type = t
        THEN LET row == CHOOSE x \in summaryResults : x.type = t
             IN [total |-> parseFloat(row.total), count |-> row.count]
        ELSE [total |-> Number(0, 0), count |-> 0]
  IN [income |-> entry("income"), expense |-> entry("expense"),
      balance |-> Minus(entry("income").total, entry("expense").total)]

\* The variant without GROUP BY: a row per transaction.
categoryQueryPerRow(db, userId, startDate, endDate) ==
  LET rows == Joined(db, userId, startDate, endDate)
      category(e) == LET c == CategoryOf(db, e)
                     IN [id |-> c.id, name |-> c.name, type |-> c.type, color |-> c.color]
  IN {[category |-> category(e), total |-> e.amount, count |-> 1, of |-> e.id] : e \in rows}

\* SELECT c.id, c.name, c.type, c.color, SUM(e.amount), COUNT(e.id) ...
\* GROUP BY c.id, c.name, c.type, c.color
categoryQuery(db, userId, startDate, endDate) ==
  LET rows == Joined(db, userId, startDate, endDate)
      group(c) == {e \in rows : e.category_id = c.id}
  IN {[category |-> [id |-> c.id, name |-> c.name, type |-> c.type, color |-> c.color],
       total |-> SUM(group(c)), count |-> Cardinality(group(c))] :
        c \in {CategoryOf(db, e) : e \in rows}}

\* YEAR(), MONTH() of a DATE
YEAR(date) == date \div 10000
MONTH(date) == (date \div 100) % 100

\* The variant that groups by DATE(e.transaction_date) whatever groupBy is.
timeSeriesQueryPerDay(db, userId, startDate, endDate, groupBy) ==
  LET rows == Joined(db, userId, startDate, endDate)
      byDay(d, t) == {e \in rows : e.transaction_date = d /\ CategoryOf(db, e).type = t}
  IN IF groupBy = "day"
     THEN {[date |-> e.transaction_date, type |-> CategoryOf(db, e).type,
            total |-> SUM(byDay(e.transaction_date, CategoryOf(db, e).type))] : e \in rows}
     ELSE {[year |-> YEAR(e.transaction_date), month |-> MONTH(e.transaction_date),
            type |-> CategoryOf(db, e).type, of |-> e.transaction_date,
            total |-> SUM(byDay(e.transaction_date, CategoryOf(db, e).type))] : e \in rows}

\* SELECT DATE(e.transaction_date), c.type, SUM(e.amount) ... GROUP BY date, c.type
\* or YEAR(), MONTH(), c.type, SUM(e.amount) ... GROUP BY year, month, c.type
timeSeriesQuery(db, userId, startDate, endDate, groupBy) ==
  LET rows == Joined(db, userId, startDate, endDate)
      byDay(d, t) == {e \in rows : e.transaction_date = d /\ CategoryOf(db, e).type = t}
      byMonth(y, m, t) == {e \in rows : /\ YEAR(e.transaction_date) = y
                                        /\ MONTH(e.transaction_date) = m
                                        /\ CategoryOf(db, e).type = t}
  IN IF groupBy = "day"
     THEN {[date |-> e.transaction_date, type |-> CategoryOf(db, e).type,
            total |-> SUM(byDay(e.transaction_date, CategoryOf(db, e).type))] : e \in rows}
     ELSE {[year |-> YEAR(e.transaction_date), month |-> MONTH(e.transaction_date),
            type |-> CategoryOf(db, e).type,
            total |-> SUM(byMonth(YEAR(e.transaction_date), MONTH(e.transaction_date),
                                  CategoryOf(db, e).type))] : e \in rows}

\* The variant without ORDER BY: any arrangement.
AnyOrder(x, y) == FALSE

\* ORDER BY total DESC
totalDesc(x, y) == x.total > y.total

\* ORDER BY date DESC
dateDesc(x, y) == x.date > y.date

\* The variant ORDER BY year DESC: the months of a year in any order.
yearDesc(x, y) == x.year > y.year

\* ORDER BY year DESC, month DESC
yearMonthDesc(x, y) == x.year > y.year \/ (x.year = y.year /\ x.month > y.month)

\* The orders ORDER BY may return a result set in: every arrangement in which
\* no row comes before a row that precedes it (rows that tie come in any order).
OrderBy(rows, order) ==
  LET precedes(x, y) == CASE order = "total DESC" -> totalDesc(x, y)
                          [] order = "date DESC" -> dateDesc(x, y)
                          [] order = "year DESC, month DESC" -> yearMonthDesc(x, y)
  IN {f \in [1..Cardinality(rows) -> rows] :
        /\ \A i, j \in DOMAIN f : i # j => f[i] # f[j]
        /\ \A i, j \in DOMAIN f : i < j => ~precedes(f[j], f[i])}

\* categoryResults.map / timeSeriesResults.map: total: parseFloat(row.total)
mapTotals(results) ==
  [i \in DOMAIN results |-> [results[i] EXCEPT !.total = parseFloat(@)]]

getStatistics(userId, startDate, endDate, groupBy) ==
  [op |-> "getStatistics", pc |-> "summaryQuery", status |-> 0, user |-> userId,
   startDate |-> startDate, endDate |-> endDate, groupBy |-> groupBy]

\* ------------------------------------------- GET /api/expenses (getExpenses)
\* getExpenses: limit: Math.min(parseInt(limit), 100)
MaxLimit == 100

\* The query parameters after parseInt: page and limit are integers; each of
\* startDate, endDate, categoryId and type is absent or given.
getExpenses(userId, page, limit, startDate, endDate, categoryId, type) ==
  [op |-> "getExpenses", status |-> 0, user |-> userId,
   page |-> page, limit |-> Min(limit, MaxLimit),
   startDate |-> startDate, endDate |-> endDate, categoryId |-> categoryId, type |-> type]

\* FROM expenses e JOIN categories c ON e.category_id = c.id WHERE e.user_id = ?
\* and the conditions of the options given
Expense_findByUser_where(db, userId, options) ==
  {e \in db.expenses :
     /\ e.user_id = userId
     /\ \E c \in db.categories :
          c.id = e.category_id /\ (options.type = Absent \/ c.type \in options.type)
     /\ \A d \in options.startDate : e.transaction_date >= d
     /\ \A d \in options.endDate : e.transaction_date <= d
     /\ options.categoryId = Absent \/ e.category_id \in options.categoryId}

\* created_at TIMESTAMP DEFAULT CURRENT_TIMESTAMP: the second of the INSERT,
\* never earlier for a later id; two rows inserted in one second share it.
Clocks ==
  {created_at \in [1..MaxExpenses -> {1, 2}] :
     /\ created_at[1] = 1
     /\ \A i, j \in 1..MaxExpenses : i < j => created_at[i] <= created_at[j]}

\* ORDER BY e.transaction_date DESC, e.created_at DESC: the orders the rows
\* can be returned in; rows equal in both come in any order.
OrderByDateCreated(rows, created_at) ==
  LET Before(a, b) ==
        \/ a.transaction_date > b.transaction_date
        \/ a.transaction_date = b.transaction_date /\ created_at[a.id] > created_at[b.id]
  IN {q \in [1..Cardinality(rows) -> rows] :
        /\ \A i, j \in DOMAIN q : i # j => q[i] # q[j]
        /\ \A i, j \in DOMAIN q : i < j => ~Before(q[j], q[i])}

\* The variant that takes page as the number of pages to skip
offsetOfPagesSkipped(page, limit) == page * limit

\* const offset = (page - 1) * limit
offset(page, limit) == (page - 1) * limit

\* LIMIT ? OFFSET ?
LimitOffset(q, limit, off) ==
  [i \in 1..Min(limit, Len(q) - off) |-> q[off + i]]

\* Expense.findByUser returning the rows in the order q: the count query,
\* then the page; a negative OFFSET is an SQL error: 500.
Expense_findByUser(db, r, q) ==
  LET total == Cardinality(Expense_findByUser_where(db, r.user, r))
  IN IF offset(r.page, r.limit) < 0 THEN Respond(r, 500)
     ELSE [expenses |-> LimitOffset(q, r.limit, offset(r.page, r.limit)),
           pagination |-> [page |-> r.page, limit |-> r.limit, total |-> total,
                           totalPages |-> (total + r.limit - 1) \div r.limit,
                           hasMore |-> r.page * r.limit < total]]
          @@ Respond(r, 200)

\* --------------------------------------- executeTransaction (config/database.js)
\* The calls awaited by executeTransaction, each of which resolves or rejects.
Calls == {"getConnection", "beginTransaction", "callback", "commit", "rollback"}

\* One execution: fails is the set of calls that reject in it; the callback
\* inserts one category of userId through the connection. connection: a
\* connection was acquired; rows: what the open transaction has written;
\* commits, rollbacks, released: how often each was called; caught: the call
\* whose error the catch block received; thrown: the call whose error leaves
\* executeTransaction ("none": it returned the callback's result).
executeTransaction(userId, fails) ==
  [op |-> "executeTransaction", pc |-> "getConnection", status |-> 0, user |-> userId,
   fails |-> fails, connection |-> FALSE, callbackDone |-> FALSE, committed |-> FALSE,
   rows |-> {}, commits |-> 0, rollbacks |-> 0, released |-> 0,
   caught |-> "none", thrown |-> "none"]

\* The variant whose catch block throws without connection.rollback()
catchWithoutRollback(r, call) ==
  [r EXCEPT !.pc = "release", !.caught = call, !.thrown = call]

\* catch (error): on to connection.rollback()
catch(r, call) == [r EXCEPT !.pc = "rollback", !.caught = call]

executeTransaction_step(db, r) ==
  CASE r.pc = "getConnection" ->
         \* const connection = await pool.getConnection(), outside the try
         IF "getConnection" \in r.fails
         THEN After(db, [r EXCEPT !.pc = "done", !.thrown = "getConnection"])
         ELSE After(db, [r EXCEPT !.pc = "beginTransaction", !.connection = TRUE])
    [] r.pc = "beginTransaction" ->
         IF "beginTransaction" \in r.fails THEN After(db, catch(r, "beginTransaction"))
         ELSE After(db, [r EXCEPT !.pc = "callback"])
    [] r.pc = "callback" ->
         \* the callback's INSERT takes an id and stays uncommitted; then the
         \* callback returns or throws
         LET row == [id |-> db.catAutoInc, user_id |-> r.user, name |-> <<"u7968">>,
                     type |-> "expense", color |-> DefaultColor]
             written == [r EXCEPT !.rows = {row}]
         IN After([db EXCEPT !.catAutoInc = @ + 1],
                  IF "callback" \in r.fails THEN catch(written, "callback")
                  ELSE [written EXCEPT !.pc = "commit", !.callbackDone = TRUE])
    [] r.pc = "commit" ->
         LET called == [r EXCEPT !.commits = @ + 1]
         IN IF "commit" \in r.fails THEN After(db, catch(called, "commit"))
            ELSE After([db EXCEPT !.categories = @ \cup r.rows],
                       [called EXCEPT !.pc = "release", !.committed = TRUE])
    [] r.pc = "rollback" ->
         \* await connection.rollback(); throw error: a rollback that rejects
         \* leaves the catch block with its own error
         After(db, [r EXCEPT !.pc = "release", !.rollbacks = @ + 1,
                             !.thrown = IF "rollback" \in r.fails THEN "rollback"
                                        ELSE r.caught])
    [] r.pc = "release" ->
         \* finally: connection.release()
         After(db, [r EXCEPT !.pc = "done", !.released = @ + 1])

\* ------------------------------------------------------------- actions
\* One statement of a handler.
Step(db, r) ==
  CASE r.op = "createCategory" -> createCategory_step(db, r)
    [] r.op = "updateCategory" -> updateCategory_step(db, r)
    [] r.op = "createExpense" -> createExpense_step(db, r)
    [] r.op = "updateExpense" -> updateExpense_step(db, r)
    [] r.op = "deleteExpense" -> deleteExpense_step(db, r)
    [] r.op = "deleteCategory" -> deleteCategory_step(db, r)
    [] r.op = "quickExpense" -> quickExpense_step(db, r)
    [] r.op = "bulkImport" -> bulkImport_step(db, r)
    [] r.op = "getExpenseById" -> getExpenseById_step(db, r)
    [] r.op = "getCategoryById" -> getCategoryById_step(db, r)
    [] r.op = "initDefaultCategories" -> initDefaultCategories_step(db, r)
    [] r.op = "executeTransaction" -> executeTransaction_step(db, r)

\* A handler run from its first statement to its response with no other
\* statement in between.
RECURSIVE Run(_, _)
Run(db, r) ==
  IF r.pc = "done" THEN After(db, r)
  ELSE LET s == Step(db, r) IN Run(s.db, s.r)

Commit(db) ==
  /\ categories' = db.categories
  /\ expenses' = db.expenses
  /\ catAutoInc' = db.catAutoInc
  /\ expAutoInc' = db.expAutoInc

\* Handler p is left in flight, or has sent its response and is free again.
Continue(p, r) ==
  IF r.pc = "done"
  THEN /\ req' = [req EXCEPT ![p] = Idle]
       /\ resp' = {[proc |-> p] @@ r}
  ELSE /\ req' = [req EXCEPT ![p] = r]
       /\ resp' = NoResponse

\* Handler p receives request r and runs its first statement.
Arrive(p, r) ==
  /\ req[p] = Idle
  /\ LET s == Step(DB, r) IN Commit(s.db) /\ Continue(p, s.r)
  /\ UNCHANGED clsVars

\* Handler p, in flight at pc, runs that statement.
Advance(p, op, pc) ==
  /\ req[p].op = op /\ req[p].pc = pc
  /\ LET s == Step(DB, req[p]) IN Commit(s.db) /\ Continue(p, s.r)
  /\ UNCHANGED clsVars

\* A request served from arrival to response while no other handler runs.
Serve(r) ==
  /\ Commit(Run(DB, r).db)
  /\ resp' = NoResponse
  /\ UNCHANGED <<req, clsVars>>

\* Handler p serves request r from arrival to response while no other
\* handler runs, and sends the response.
Answer(p, r) ==
  /\ req[p] = Idle
  /\ LET s == Run(DB, r) IN Commit(s.db) /\ resp' = {[proc |-> p] @@ s.r}
  /\ UNCHANGED <<req, clsVars>>

\* Requests in flight that will still take an AUTO_INCREMENT id.
Pending(op) ==
  Cardinality({q \in Procs : req[q].op = op /\ req[q].pc \in {"belongsToUser", "findByUserAndName", "insert"}})

CreateCategory_findByUserAndName(p, userId, name, type, color) ==
  /\ catAutoInc + Pending("createCategory") <= MaxCategories
  /\ Arrive(p, createCategory(userId, name, type, color))
CreateCategory_insert(p) ==
  /\ req[p].pc = "insert"
  /\ Advance(p, "createCategory", "insert")
CreateCategory_findById(p) ==
  /\ req[p].pc = "findById"
  /\ Advance(p, "createCategory", "findById")

UpdateCategory_findById(p, userId, categoryId, body) ==
  /\ categoryId < catAutoInc
  /\ Arrive(p, updateCategory(userId, categoryId, body))
UpdateCategory_findByUserAndName(p) ==
  /\ req[p].pc = "findByUserAndName"
  /\ Advance(p, "updateCategory", "findByUserAndName")
UpdateCategory_update(p) ==
  /\ req[p].pc = "update"
  /\ Advance(p, "updateCategory", "update")
UpdateCategory_findByIdAfter(p) ==
  /\ req[p].pc = "findByIdAfter"
  /\ Advance(p, "updateCategory", "findByIdAfter")

CreateExpense_belongsToUser(p, userId, category_id, amount, transaction_date) ==
  /\ expAutoInc + Pending("createExpense") <= MaxExpenses
  /\ Arrive(p, createExpense(userId, category_id, amount, transaction_date))
CreateExpense_insert(p) ==
  /\ req[p].pc = "insert"
  /\ Advance(p, "createExpense", "insert")
CreateExpense_findById(p) ==
  /\ req[p].pc = "findById"
  /\ Advance(p, "createExpense", "findById")

UpdateExpense_findById(p, userId, id, category_id, amount, transaction_date) ==
  /\ id < expAutoInc
  /\ Arrive(p, updateExpense(userId, id, category_id, amount, transaction_date))
UpdateExpense_belongsToUser(p) ==
  /\ req[p].pc = "belongsToUser"
  /\ Advance(p, "updateExpense", "belongsToUser")
UpdateExpense_update(p) ==
  /\ req[p].pc = "update"
  /\ Advance(p, "updateExpense", "update")
UpdateExpense_findByIdAfter(p) ==
  /\ req[p].pc = "findByIdAfter"
  /\ Advance(p, "updateExpense", "findByIdAfter")

DeleteCategory_findById(p, userId, categoryId) ==
  /\ categoryId < catAutoInc
  /\ Arrive(p, deleteCategory(userId, categoryId))
DeleteCategory_getExpenseCount(p) ==
  /\ req[p].pc = "getExpenseCount"
  /\ Advance(p, "deleteCategory", "getExpenseCount")
DeleteCategory_delete(p) ==
  /\ req[p].pc = "delete"
  /\ Advance(p, "deleteCategory", "delete")

\* Expense.getStatistics: the summary query and the summary built from it.
GetStatistics_summaryQuery(p, userId, startDate, endDate, groupBy) ==
  LET r == getStatistics(userId, startDate, endDate, groupBy)
  IN /\ req[p] = Idle
     /\ Continue(p, [summary |-> summary(summaryQuery(DB, userId, startDate, endDate))]
                       @@ [r EXCEPT !.pc = "categoryQuery"])
     /\ UNCHANGED <<categories, expenses, catAutoInc, expAutoInc, clsVars>>

\* Expense.getStatistics: the category query.
GetStatistics_categoryQuery(p) ==
  LET r == req[p]
  IN /\ r.op = "getStatistics" /\ r.pc = "categoryQuery"
     /\ \E categoryResults \in
            OrderBy(categoryQuery(DB, r.user, r.startDate, r.endDate), "total DESC") :
          Continue(p, [categoryResults |-> categoryResults]
                        @@ [r EXCEPT !.pc = "timeSeriesQuery"])
     /\ UNCHANGED <<categories, expenses, catAutoInc, expAutoInc, clsVars>>

\* Expense.getStatistics: the time series query, and the response.
GetStatistics_timeSeriesQuery(p) ==
  LET r == req[p]
      rows == timeSeriesQuery(DB, r.user, r.startDate, r.endDate, r.groupBy)
  IN /\ r.op = "getStatistics" /\ r.pc = "timeSeriesQuery"
     /\ \E timeSeriesResults \in
            IF r.groupBy = "day" THEN OrderBy(rows, "date DESC")
            ELSE OrderBy(rows, "year DESC, month DESC") :
          Continue(p, [op |-> r.op, pc |-> "done", status |-> 200, user |-> r.user,
                       startDate |-> r.startDate, endDate |-> r.endDate,
                       groupBy |-> r.groupBy,
                       data |-> [summary |-> r.summary,
                                 categoryBreakdown |-> mapTotals(r.categoryResults),
                                 timeSeries |-> mapTotals(timeSeriesResults)]])
     /\ UNCHANGED <<categories, expenses, catAutoInc, expAutoInc, clsVars>>

\* ------------------------------------------------------- specifications
CategoryIds == 1..MaxCategories
ExpenseIds == 1..MaxExpenses

\* An empty database, no request in flight.
Init ==
  /\ clsArg = Undefined
  /\ clsRet = NotCalled
  /\ InitDb

\* The statistics of a user read by one handler while the requests that
\* write expenses are served.  The categories are those three createCategory
\* requests leave: an income and an expense category of user 1, an expense
\* category of user 2.
SeededCategories ==
  {[id |-> 1, user_id |-> 1, name |-> <<"u85AA", "u8CC7">>, type |-> "income", color |-> DefaultColor],
   [id |-> 2, user_id |-> 1, name |-> <<"u7968">>, type |-> "expense", color |-> DefaultColor],
   [id |-> 3, user_id |-> 2, name |-> <<"u7968">>, type |-> "expense", color |-> DefaultColor]}

InitStats ==
  /\ clsArg = Undefined
  /\ clsRet = NotCalled
  /\ categories = SeededCategories
  /\ expenses = {}
  /\ catAutoInc = 4
  /\ expAutoInc = 1
  /\ req = [p \in Procs |-> Idle]
  /\ resp = NoResponse

StatsReader == "a"

\* The statistics requests sent: user 1 over every kind of window, user 2
\* over the whole history.
StatsQueries ==
  { [user |-> 1, startDate |-> Absent, endDate |-> Absent, groupBy |-> "day"],
    [user |-> 1, startDate |-> Absent, endDate |-> Absent, groupBy |-> "month"],
    [user |-> 1, startDate |-> {20250201}, endDate |-> Absent, groupBy |-> "month"],
    [user |-> 1, startDate |-> Absent, endDate |-> {20250131}, groupBy |-> "day"],
    [user |-> 1, startDate |-> {20250201}, endDate |-> {20250131}, groupBy |-> "month"],
    [user |-> 1, startDate |-> {20250131}, endDate |-> {20250131}, groupBy |-> "day"],
    [user |-> 2, startDate |-> Absent, endDate |-> Absent, groupBy |-> "month"] }

\* The transactions posted meanwhile: user 1 against the own expense category
\* on any date, against the own income category on the last day of a month
\* and the first of the next; user 2 against the own category and against
\* one of user 1.
StatsWrites ==
  {[user |-> 1, category_id |-> 2, amount |-> a, transaction_date |-> d] :
     a \in Amounts, d \in Dates}
  \cup {[user |-> 1, category_id |-> 1, amount |-> a, transaction_date |-> d] :
           a \in Amounts, d \in {20250131, 20250201}}
  \cup {[user |-> 2, category_id |-> c, amount |-> 10, transaction_date |-> 20250131] :
           c \in {1, 3}}

ServeCreateExpense(userId, category_id, amount, transaction_date) ==
  /\ expAutoInc + Pending("createExpense") <= MaxExpenses
  /\ Serve(createExpense(userId, category_id, amount, transaction_date))

ServeDeleteExpense(userId, id) ==
  /\ id < expAutoInc
  /\ Serve(deleteExpense(userId, id))

ServeCreateCategory(userId, name, type, color) ==
  /\ catAutoInc + Pending("createCategory") <= MaxCategories
  /\ Serve(createCategory(userId, name, type, color))

NextStats ==
  \/ \E w \in StatsWrites :
       ServeCreateExpense(w.user, w.category_id, w.amount, w.transaction_date)
  \/ \E u \in Users, id \in ExpenseIds : ServeDeleteExpense(u, id)
  \/ \E q \in StatsQueries :
       GetStatistics_summaryQuery(StatsReader, q.user, q.startDate, q.endDate, q.groupBy)
  \/ GetStatistics_categoryQuery(StatsReader)
  \/ GetStatistics_timeSeriesQuery(StatsReader)

SpecStats == InitStats /\ [][NextStats]_vars

\* Category deletion against the requests that create and delete what a
\* category is referred to by.  deleteCategory and createExpense run statement
\* by statement, two handlers in flight; createCategory and deleteExpense are
\* served between their statements.
InitDelete == Init

NextDelete ==
  \/ \E u \in Users : ServeCreateCategory(u, <<"u7968">>, "expense", Absent)
  \/ \E u \in Users, id \in ExpenseIds : ServeDeleteExpense(u, id)
  \/ \E p \in Procs :
       \/ \E u \in Users, c \in CategoryIds :
            CreateExpense_belongsToUser(p, u, c, 10, 20250131)
       \/ CreateExpense_insert(p)
       \/ CreateExpense_findById(p)
       \/ \E u \in Users, id \in CategoryIds : DeleteCategory_findById(p, u, id)
       \/ DeleteCategory_getExpenseCount(p)
       \/ DeleteCategory_delete(p)

SpecDelete == InitDelete /\ [][NextDelete]_vars

ServeDeleteCategory(userId, categoryId) ==
  /\ categoryId < catAutoInc
  /\ Serve(deleteCategory(userId, categoryId))

\* The requests that write a transaction's category_id against category
\* deletion: one handler runs createExpense and updateExpense statement by
\* statement; createCategory and deleteCategory are served between its
\* statements.
InitOrphan == Init

Writer == "a"

NextOrphan ==
  \/ \E u \in Users, t \in Types : ServeCreateCategory(u, <<"u7968">>, t, Absent)
  \/ \E u \in Users, id \in CategoryIds : ServeDeleteCategory(u, id)
  \/ \E u \in Users, c \in CategoryIds :
       CreateExpense_belongsToUser(Writer, u, c, 10, 20250131)
  \/ CreateExpense_insert(Writer)
  \/ CreateExpense_findById(Writer)
  \/ \E u \in Users, id \in ExpenseIds, c \in CategoryIds :
       UpdateExpense_findById(Writer, u, id, c, 30, 20250131)
  \/ UpdateExpense_belongsToUser(Writer)
  \/ UpdateExpense_update(Writer)
  \/ UpdateExpense_findByIdAfter(Writer)

SpecOrphan == InitOrphan /\ [][NextOrphan]_vars

\* The requests that name a category, two handlers in flight, statement by
\* statement: createCategory and updateCategory.
InitCategory == Init

CategoryNames == {<<"u7968">>, <<"u85AA", "u8CC7">>}

\* The bodies of the update requests: a new name, a new colour with a type,
\* a type alone.
UpdateBodies ==
  {[name |-> {n}, color |-> Absent, type |-> Absent] : n \in CategoryNames}
  \cup {[name |-> Absent, color |-> {"#28a745"}, type |-> {"income"}],
        [name |-> Absent, color |-> Absent, type |-> {"income"}]}

NextCategory ==
  \E p \in Procs :
    \/ \E u \in Users, n \in CategoryNames :
         CreateCategory_findByUserAndName(p, u, n, "expense", Absent)
    \/ CreateCategory_insert(p)
    \/ CreateCategory_findById(p)
    \/ \E u \in Users, id \in CategoryIds, body \in UpdateBodies :
         UpdateCategory_findById(p, u, id, body)
    \/ UpdateCategory_findByUserAndName(p)
    \/ UpdateCategory_update(p)
    \/ UpdateCategory_findByIdAfter(p)

SpecCategory == InitCategory /\ [][NextCategory]_vars

\* The requests that write transactions, answered one after another: the
\* categories come from createCategory and quickExpense, the transactions
\* from createExpense, quickExpense and bulkImport, and updateExpense moves
\* them to another category.
InitWrite == Init

\* The records of a bulk import: with or without a user_id of their own.
BulkRecords ==
  {[user_id |-> u, category_id |-> c, amount |-> 10, transaction_date |-> Today] :
     u \in {Absent} \cup {{v} : v \in Users}, c \in CategoryIds}

\* The lists imported: empty, one record, a record for category 1 and one more.
BulkLists == {<<>>} \cup {<<x>> : x \in BulkRecords}
               \cup {<<x, y>> : x \in {z \in BulkRecords : z.user_id = Absent /\ z.category_id = 1},
                               y \in BulkRecords}

AnswerCreateCategory(p, userId, name, type, color) ==
  /\ catAutoInc <= MaxCategories
  /\ Answer(p, createCategory(userId, name, type, color))

AnswerCreateExpense(p, userId, category_id, amount, transaction_date) ==
  /\ expAutoInc <= MaxExpenses
  /\ Answer(p, createExpense(userId, category_id, amount, transaction_date))

\* quickExpense takes a category id unless the user has the category.
AnswerQuickExpense(p, userId, amount, categoryName, type) ==
  LET r == quickExpense(userId, amount, categoryName, type)
  IN /\ expAutoInc <= MaxExpenses
     /\ \/ catAutoInc <= MaxCategories
        \/ Category_findByUserAndName(DB, userId, categoryName, r.finalType) # {}
     /\ Answer(p, r)

\* bulkImport takes at most one transaction id for each record.
AnswerBulkImport(p, userId, records) ==
  /\ Len(records) > MaxImport \/ expAutoInc + Len(records) <= MaxExpenses + 1
  /\ Answer(p, bulkImport(userId, TRUE, records))

AnswerUpdateExpense(p, userId, id, category_id, amount, transaction_date) ==
  /\ id < expAutoInc
  /\ Answer(p, updateExpense(userId, id, category_id, amount, transaction_date))

NextWrite ==
  \/ \E u \in Users : AnswerCreateCategory(Writer, u, <<"u7968">>, "expense", Absent)
  \/ \E u \in Users, c \in CategoryIds : AnswerCreateExpense(Writer, u, c, 10, Today)
  \/ \E u \in Users, t \in {Absent, {"income"}} :
       AnswerQuickExpense(Writer, u, {10}, <<"u7968">>, t)
  \/ \E u \in Users, l \in BulkLists : AnswerBulkImport(Writer, u, l)
  \/ \E u \in Users, id \in ExpenseIds, c \in CategoryIds :
       AnswerUpdateExpense(Writer, u, id, c, 10, Today)

SpecWrite == InitWrite /\ [][NextWrite]_vars

\* The requests that read, change or delete one category or transaction,
\* answered one after another, each sent by either user for any id handed
\* out so far; createCategory and createExpense supply the rows.
InitAccess == Init

\* The body of the category updates: a new name, a new colour and a type.
AccessBody ==
  [name |-> {<<"u85AA", "u8CC7">>}, color |-> {"#28a745"}, type |-> {"income"}]

AnswerGetCategoryById(p, userId, categoryId) ==
  /\ categoryId < catAutoInc
  /\ Answer(p, getCategoryById(userId, categoryId))

AnswerUpdateCategory(p, userId, categoryId, body) ==
  /\ categoryId < catAutoInc
  /\ Answer(p, updateCategory(userId, categoryId, body))

AnswerDeleteCategory(p, userId, categoryId) ==
  /\ categoryId < catAutoInc
  /\ Answer(p, deleteCategory(userId, categoryId))

AnswerGetExpenseById(p, userId, id) ==
  /\ id < expAutoInc
  /\ Answer(p, getExpenseById(userId, id))

AnswerDeleteExpense(p, userId, id) ==
  /\ id < expAutoInc
  /\ Answer(p, deleteExpense(userId, id))

NextAccess ==
  \/ \E u \in Users : AnswerCreateCategory(Writer, u, <<"u7968">>, "expense", Absent)
  \/ \E u \in Users, c \in CategoryIds : AnswerCreateExpense(Writer, u, c, 10, Today)
  \/ \E u \in Users, c \in CategoryIds : AnswerGetCategoryById(Writer, u, c)
  \/ \E u \in Users, c \in CategoryIds : AnswerUpdateCategory(Writer, u, c, AccessBody)
  \/ \E u \in Users, c \in CategoryIds : AnswerDeleteCategory(Writer, u, c)
  \/ \E u \in Users, id \in ExpenseIds : AnswerGetExpenseById(Writer, u, id)
  \/ \E u \in Users, id \in ExpenseIds : AnswerUpdateExpense(Writer, u, id, 1, 10, Today)
  \/ \E u \in Users, id \in ExpenseIds : AnswerDeleteExpense(Writer, u, id)

SpecAccess == InitAccess /\ [][NextAccess]_vars

\* The requests that store an amount, answered one after another, with
\* amounts below, at and above the ends of the valid range.
InitAmount == Init

AmountInputs == {-10, 0, 10, MaxAmount, MaxAmount + 1}

NextAmount ==
  \/ \E u \in Users : AnswerCreateCategory(Writer, u, <<"u7968">>, "expense", Absent)
  \/ \E c \in CategoryIds, a \in AmountInputs : AnswerCreateExpense(Writer, 1, c, a, Today)
  \/ \E a \in AmountInputs : AnswerQuickExpense(Writer, 1, {a}, <<"u7968">>, Absent)
  \/ \E c \in CategoryIds, a \in AmountInputs :
       AnswerBulkImport(Writer, 1, <<[user_id |-> Absent, category_id |-> c,
                                      amount |-> a, transaction_date |-> Today]>>)
  \/ \E id \in ExpenseIds, c \in CategoryIds, a \in AmountInputs :
       AnswerUpdateExpense(Writer, 1, id, c, a, Today)

SpecAmount == InitAmount /\ [][NextAmount]_vars

\* quickExpense requests answered one after another: user 1 with names of
\* no keyword (u660E), of an income keyword (u85AA u8CC7) and of a keyword of
\* both lists (u623F u79DF), without a type, with one, with one the table
\* does not take, with and without an amount; user 2 with the first name.
InitQuick == Init

QuickNames == {<<"u660E">>, <<"u85AA", "u8CC7">>, <<"u623F", "u79DF">>}
QuickTypes == {Absent, {"income"}, {"transfer"}}
QuickAmounts == {{10}, Absent}

QuickRequests ==
  {[user |-> 1, amount |-> a, categoryName |-> n, type |-> t] :
     a \in QuickAmounts, n \in QuickNames, t \in QuickTypes}
  \cup {[user |-> 2, amount |-> {10}, categoryName |-> <<"u660E">>, type |-> Absent]}

NextQuick ==
  \E q \in QuickRequests :
    AnswerQuickExpense(Writer, q.user, q.amount, q.categoryName, q.type)

SpecQuick == InitQuick /\ [][NextQuick]_vars

\* bulkImport requests of user 1 answered one after another, the categories
\* supplied by createCategory of either user: no array, an empty array, one
\* and two records for any category, one record in three naming user 2, and
\* an array of MaxImport + 1 records.
InitBulk == Init

ImportRecords ==
  {[user_id |-> Absent, category_id |-> c, amount |-> 10, transaction_date |-> Today] :
     c \in CategoryIds}
  \cup {[user_id |-> {2}, category_id |-> 1, amount |-> 10, transaction_date |-> Today]}

TooMany ==
  [i \in 1..(MaxImport + 1) |->
     [user_id |-> Absent, category_id |-> 1, amount |-> 10, transaction_date |-> Today]]

ImportLists ==
  {<<>>, TooMany} \cup {<<x>> : x \in ImportRecords}
    \cup {<<x, y>> : x, y \in ImportRecords}

AnswerBulkImportNoArray(p, userId) ==
  /\ catAutoInc <= MaxCategories + 1
  /\ Answer(p, bulkImport(userId, FALSE, <<>>))

NextBulk ==
  \/ \E u \in Users :
       AnswerCreateCategory(Writer, u, <<"u85AA", "u8CC7">>, "income", Absent)
  \/ \E l \in ImportLists : AnswerBulkImport(Writer, 1, l)
  \/ AnswerBulkImportNoArray(Writer, 1)

SpecBulk == InitBulk /\ [][NextBulk]_vars

\* init-defaults requests of either user answered one after another, before
\* or after createCategory requests for two of the default names, each as an
\* income and as an expense category.
InitDefaults == Init

AnswerInitDefaultCategories(p, userId) ==
  /\ userId \in Users
  /\ Answer(p, initDefaultCategories(userId))

NextDefaults ==
  \/ \E u \in Users, n \in {<<"u85AA", "u8CC7">>, <<"u5C45", "u4F4F">>}, t \in Types :
       AnswerCreateCategory(Writer, u, n, t, Absent)
  \/ \E u \in Users : AnswerInitDefaultCategories(Writer, u)

SpecDefaults == InitDefaults /\ [][NextDefaults]_vars

\* executeTransaction run by two callers at once, one awaited call per step.
\* In an execution no call rejects, or one does, or one does and so does the
\* rollback that follows it. Every awaited call settles, so an execution
\* under way takes its next step: weak fairness of each caller's steps.
InitTransaction == Init

Failures ==
  {{}} \cup {{c} : c \in Calls} \cup {{c, "rollback"} : c \in Calls \ {"rollback"}}

StartTransaction(p, userId, fails) ==
  /\ catAutoInc + Cardinality({q \in Procs : req[q].op = "executeTransaction"
                                  /\ req[q].pc \in {"beginTransaction", "callback"}})
       <= MaxCategories
  /\ Arrive(p, executeTransaction(userId, fails))

ContinueTransaction(p) ==
  /\ req[p].op = "executeTransaction"
  /\ LET s == Step(DB, req[p]) IN Commit(s.db) /\ Continue(p, s.r)
  /\ UNCHANGED clsVars

NextTransaction ==
  \/ \E p \in Procs, f \in Failures : StartTransaction(p, 1, f)
  \/ \E p \in Procs : ContinueTransaction(p)

SpecTransaction ==
  /\ InitTransaction /\ [][NextTransaction]_vars
  /\ \A p \in Procs : WF_vars(ContinueTransaction(p))

\* getExpenses requests answered between createCategory and createExpense
\* requests: user 1 asks for pages 0 to 3 of 1 and 2 rows, for page 1 of 101
\* rows, and for pages 1 and 2 of one row under each single filter and under
\* a date window with a type; user 2 asks for page 1.
InitPages == Init

PageDates == {20250131, Today}

NoFilter == [startDate |-> Absent, endDate |-> Absent, categoryId |-> Absent, type |-> Absent]

PageFilters ==
  {[NoFilter EXCEPT !.startDate = {Today}], [NoFilter EXCEPT !.endDate = {20250131}],
   [NoFilter EXCEPT !.categoryId = {1}], [NoFilter EXCEPT !.type = {"income"}],
   [NoFilter EXCEPT !.startDate = {20250131}, !.endDate = {Today}, !.type = {"expense"}]}

PageQueries ==
  {[user |-> 1, page |-> p, limit |-> l] @@ NoFilter : p \in 0..3, l \in {1, 2}}
  \cup {[user |-> 1, page |-> 1, limit |-> MaxLimit + 1] @@ NoFilter}
  \cup {[user |-> 1, page |-> p, limit |-> 1] @@ f : p \in {1, 2}, f \in PageFilters}
  \cup {[user |-> 2, page |-> 1, limit |-> 2] @@ NoFilter}

\* A query changes no table, so one that follows another query finds what
\* that one found: the queries taken are those that follow a write.
AnswerGetExpenses(p, userId, page, limit, startDate, endDate, categoryId, type) ==
  /\ req[p] = Idle
  /\ \A x \in resp : x.op # "getExpenses"
  /\ LET r == getExpenses(userId, page, limit, startDate, endDate, categoryId, type)
     IN \E created_at \in Clocks :
          \E q \in OrderByDateCreated(Expense_findByUser_where(DB, userId, r), created_at) :
            resp' = {[proc |-> p, created_at |-> created_at] @@ Expense_findByUser(DB, r, q)}
  /\ UNCHANGED <<categories, expenses, catAutoInc, expAutoInc, req, clsVars>>

NextPages ==
  \/ AnswerCreateCategory(Writer, 1, <<"u85AA", "u8CC7">>, "income", Absent)
  \/ \E u \in Users : AnswerCreateCategory(Writer, u, <<"u7968">>, "expense", Absent)
  \/ \E c \in CategoryIds, d \in PageDates : AnswerCreateExpense(Writer, 1, c, 10, d)
  \/ \E c \in CategoryIds : AnswerCreateExpense(Writer, 2, c, 10, Today)
  \/ \E x \in PageQueries :
       AnswerGetExpenses(Writer, x.user, x.page, x.limit,
                         x.startDate, x.endDate, x.categoryId, x.type)

SpecPages == InitPages /\ [][NextPages]_vars





\* =================================================== classifier claims
\* What the claims say of a name: which lists have an entry it contains,
\* and how many entries of a list it contains.
ContainsKeyword(chars, keywords) ==
  \E i \in 1..Len(keywords) : includes(chars, keywords[i])

MatchCount(chars, keywords) ==
  Cardinality({i \in 1..Len(keywords) : includes(chars, keywords[i])})

Called(fn) == clsRet.fn = fn
ReturnedType == IF Called("classifyCategory") THEN clsRet.value ELSE clsRet.value.type
WinningSet == IF ReturnedType = "income" THEN INCOME_KEYWORDS ELSE EXPENSE_KEYWORDS
Classified == Called("getSuggestedType") /\ clsRet.value.type # "null"

\* C1: a name that contains an EXPENSE keyword and an INCOME keyword is
\* classified expense by classifyCategory and by getSuggestedType.
C1_ExpenseWinsOnConflict ==
  (/\ ~Called("none")
   /\ clsArg.typeof = "string"
   /\ ContainsKeyword(clsArg.chars, EXPENSE_KEYWORDS)
   /\ ContainsKeyword(clsArg.chars, INCOME_KEYWORDS))
  => ReturnedType = "expense"

\* A name holding the income keyword u734E u91D1 and the expense keyword
\* u7968 was handed to getSuggestedType.
C1_Witness ==
  /\ Called("getSuggestedType")
  /\ clsArg = StringValue(<<"u734E", "u91D1", "u7968">>)
  /\ clsRet.value.type = "expense"

\* C2: for a name that contains no keyword of either list getSuggestedType
\* returns the null type, confidence 0 and no matchingKeywords.
C2_NoKeywordIsUnknown ==
  (/\ Called("getSuggestedType")
   /\ clsArg.typeof = "string"
   /\ ~ContainsKeyword(clsArg.chars, EXPENSE_KEYWORDS)
   /\ ~ContainsKeyword(clsArg.chars, INCOME_KEYWORDS))
  => /\ clsRet.value.type = "null"
     /\ clsRet.value.confidence = 0
     /\ "matchingKeywords" \notin DOMAIN clsRet.value

\* A non-empty name without any keyword got the null answer.
C2_Witness ==
  /\ Called("getSuggestedType")
  /\ clsArg = StringValue(<<"u660E", "u91D1">>)
  /\ clsRet.value.type = "null"

\* C3: the confidence of a classified name is min(0.9, 0.6 + 0.3 * n), n the
\* number of entries of the winning list the name contains; it lies in
\* [0.6, 0.9] and no smaller n gives a larger confidence.
C3_ConfidenceFormula ==
  Classified =>
    LET n == MatchCount(clsArg.chars, WinningSet)
        c == clsRet.value.confidence
    IN /\ n >= 1
       /\ n = Len(clsRet.value.matchingKeywords)
       /\ c = (IF 60 + 30 * n < 90 THEN 60 + 30 * n ELSE 90)
       /\ 60 <= c /\ c <= 90
       /\ \A m \in 1..n : confidence(m) <= c

\* A name with two matches of the winning list (the cap) was classified.
C3_Witness ==
  /\ Classified
  /\ clsRet.value.type = "expense"
  /\ MatchCount(clsArg.chars, EXPENSE_KEYWORDS) = 2

TypeOfCategory(id) == (CHOOSE c \in categories : c.id = id).type

InWindow(e, r) ==
  /\ \A d \in r.startDate : d <= e.transaction_date
  /\ \A d \in r.endDate : e.transaction_date <= d

Transactions(r, type) ==
  {e \in expenses : /\ e.user_id = r.user
                    /\ InWindow(e, r)
                    /\ TypeOfCategory(e.category_id) = type}

SummaryRead(p) == req[p].op = "getStatistics" /\ req[p].pc = "categoryQuery"
StatisticsSent == {x \in resp : x.op = "getStatistics"}

\* C5: the summary read by getStatistics has an income and an expense entry;
\* each entry's count is the number, and its total the sum of the amounts, of
\* the user's transactions inside the window whose category has that type
\* (0 and 0 when there are none).
C5_SummaryCountsAndTotals ==
  [][\A p \in Procs :
       (req[p] = Idle /\ req'[p].op = "getStatistics") =>
         LET r == req'[p]
         IN /\ "summary" \in DOMAIN r
            /\ {"income", "expense"} \subseteq DOMAIN r.summary
            /\ \A t \in Types :
                 /\ r.summary[t].count = Cardinality(Transactions(r, t))
                 /\ r.summary[t].total = parseFloat(SUM(Transactions(r, t)))]_vars

\* A summary with no income and one expense, read while the other user has
\* a transaction too.
C5_Witness ==
  \E p \in Procs :
    /\ SummaryRead(p)
    /\ req[p].summary.income = [total |-> Number(0, 0), count |-> 0]
    /\ req[p].summary.expense = [total |-> Number(30, 0), count |-> 1]
    /\ Cardinality(Transactions(req[p], "expense")) = 1
    /\ \E e \in expenses : e.user_id # req[p].user

\* C6: the balance of every summary is the two-decimal difference of its
\* income total and its expense total, exactly.
C6_BalanceIsExactDifference ==
  \A p \in Procs :
    SummaryRead(p) =>
      LET s == req[p].summary
      IN s.balance = parseFloat(s.income.total.nearest - s.expense.total.nearest)

\* C7: in the categoryBreakdown of every response each entry's total is at
\* least the total of the entry after it.
C7_BreakdownSortedByTotalDesc ==
  \A x \in StatisticsSent :
    LET b == x.data.categoryBreakdown
    IN \A i, j \in DOMAIN b : j = i + 1 => b[i].total.nearest >= b[j].total.nearest

\* A breakdown of two categories in which the later-created one comes first.
C7_Witness ==
  \E x \in StatisticsSent :
    LET b == x.data.categoryBreakdown
    IN /\ DOMAIN b = 1..2
       /\ b[1].total.nearest > b[2].total.nearest
       /\ b[1].category.id > b[2].category.id

\* The writes so far are N >= 1 creations, all of one user against one category.
OnlyCreatesAgainst(userId, categoryId) ==
  /\ expenses # {}
  /\ Cardinality(expenses) = expAutoInc - 1
  /\ \A e \in expenses : e.user_id = userId /\ e.category_id = categoryId

\* C8: when the only writes were N creations by a user against one category,
\* the category query of getStatistics over an unbounded window reads exactly
\* one entry: that category's, with count N and total the sum of the N amounts.
C8_RoundTrip ==
  [][\A p \in Procs, c \in CategoryIds :
       (/\ SummaryRead(p)
        /\ req[p].startDate = Absent /\ req[p].endDate = Absent
        /\ OnlyCreatesAgainst(req[p].user, c)
        /\ req'[p].pc = "timeSeriesQuery") =>
         LET b == req'[p].categoryResults
         IN /\ DOMAIN b = {1}
            /\ b[1].category.id = c
            /\ b[1].count = Cardinality(expenses)
            /\ b[1].total = SUM(expenses)]_vars

\* Two creations of 0.10 and 0.30 against one category, read as one entry.
C8_Witness ==
  \E p \in Procs, c \in CategoryIds :
    /\ req[p].op = "getStatistics" /\ req[p].pc = "timeSeriesQuery"
    /\ req[p].startDate = Absent /\ req[p].endDate = Absent
    /\ OnlyCreatesAgainst(req[p].user, c)
    /\ {e.amount : e \in expenses} = {10, 30}
    /\ DOMAIN req[p].categoryResults = {1}
    /\ req[p].categoryResults[1].count = 2
    /\ req[p].categoryResults[1].total = 40

\* ------------------------------------------------- deletion claims
\* What the claim says of a category: the transactions that refer to it.
UsageCount(categoryId) == Cardinality({e \in expenses : e.category_id = categoryId})

OwnedBy(categoryId, userId) ==
  \E c \in categories : c.id = categoryId /\ c.user_id = userId

\* C9: a statement of deleteCategory run for a category that its requester
\* owns sends a rejection exactly when a transaction refers to the category;
\* with no such transaction the DELETE removes the category and answers 200;
\* a rejection leaves the categories and the transactions as they were.
C9_RejectedIffInUse ==
  [][\A p \in Procs :
       (/\ req[p].op = "deleteCategory"
        /\ req'[p] # req[p]
        /\ OwnedBy(req[p].id, req[p].user)) =>
         LET usage_count == UsageCount(req[p].id)
             sent == {x \in resp' : x.proc = p}
             rejected == \E x \in sent : x.status # 200
         IN /\ rejected <=> usage_count > 0
            /\ (usage_count = 0 /\ req[p].pc = "delete") =>
                 /\ \E x \in sent : x.status = 200
                 /\ \A c \in categories' : c.id # req[p].id
            /\ rejected => categories' = categories /\ expenses' = expenses]_vars

\* A deletion answered 409 for a category of the requester that a transaction
\* refers to; both are still there.
C9_Witness ==
  \E x \in resp :
    /\ x.op = "deleteCategory" /\ x.status = 409
    /\ OwnedBy(x.id, x.user)
    /\ UsageCount(x.id) > 0

\* The sum of the totals of the rows of a result that have the given type.
RECURSIVE SumOfTotals(_, _)
SumOfTotals(rows, indices) ==
  IF indices = {} THEN 0
  ELSE LET i == CHOOSE x \in indices : TRUE
       IN rows[i].total.nearest + SumOfTotals(rows, indices \ {i})

\* C10: in every response, for each type, the categoryBreakdown totals of
\* that type and the timeSeries totals of that type both add up to the
\* summary's total of that type.
C10_OneTransactionSet ==
  \A x \in StatisticsSent : \A t \in Types :
    LET b == x.data.categoryBreakdown
        ts == x.data.timeSeries
        total == x.data.summary[t].total.nearest
    IN /\ SumOfTotals(b, {i \in DOMAIN b : b[i].category.type = t}) = total
       /\ SumOfTotals(ts, {i \in DOMAIN ts : ts[i].type = t}) = total

C12_UniqueOwnerNameType ==
  \A c, d \in categories :
    (c.user_id = d.user_id /\ c.name = d.name /\ c.type = d.type) => c.id = d.id

\* ------------------------------------------------- failure claims
\* C19: no call of classifyCategory, getSuggestedType or getRecommendedColor
\* throws, whatever the name and the type are.
C19_NeverThrows ==
  "outcome" \in DOMAIN clsRet => ~clsRet.outcome.threw

\* C17: a statistics request whose endDate precedes its startDate is
\* answered with a validation error and no statistics.
C17_InvalidRangeRejected ==
  \A x \in StatisticsSent :
    (\E s \in x.startDate, e \in x.endDate : e < s) =>
      x.status = 400 /\ "data" \notin DOMAIN x

\* C18: a deleteCategory of the requester's own category that is refused
\* while transactions refer to the category is answered 409.
C18_InUseAnswered409 ==
  \A x \in resp :
    (/\ x.op = "deleteCategory" /\ x.status # 200
     /\ OwnedBy(x.id, x.user)
     /\ UsageCount(x.id) > 0) => x.status = 409

\* ------------------------------------------------- time series claim
\* What the claim says of a time series entry of the answer x: the user's
\* transactions inside the window that have the entry's type and fall in the
\* entry's period, a date when groupBy is 'day', a year and month otherwise.
InPeriod(row, e, groupBy) ==
  IF groupBy = "day"
  THEN row.date = e.transaction_date
  ELSE /\ row.year = e.transaction_date \div 10000
       /\ row.month = (e.transaction_date \div 100) % 100

EntryTransactions(x, row) ==
  {e \in Transactions(x, row.type) : InPeriod(row, e, x.groupBy)}

\* C20: the timeSeries of every statistics answer has exactly one entry for
\* each (period, type) in which the user has a transaction inside the window,
\* the entry's total is the sum of those transactions, and no entry stands
\* for a (period, type) without a transaction
C20_TimeSeriesOneEntryPerPeriodAndType ==
  [][\A x \in {y \in resp' : y.op = "getStatistics"} :
       LET timeSeries == x.data.timeSeries
       IN /\ \A t \in Types : \A e \in Transactions(x, t) :
               Cardinality({i \in DOMAIN timeSeries :
                              e \in EntryTransactions(x, timeSeries[i])}) = 1
          /\ \A i \in DOMAIN timeSeries :
               /\ EntryTransactions(x, timeSeries[i]) # {}
               /\ timeSeries[i].total = parseFloat(SUM(EntryTransactions(x, timeSeries[i])))]_vars

\* A month answered by one entry that sums transactions of two different days.
C20_Witness ==
  \E x \in StatisticsSent :
    /\ x.groupBy = "month"
    /\ DOMAIN x.data.timeSeries = {1}
    /\ Cardinality({e.transaction_date : e \in EntryTransactions(x, x.data.timeSeries[1])}) = 2
    /\ x.data.timeSeries[1].total = parseFloat(40)

\* ------------------------------------------------- ownership claims
\* C13: every stored transaction refers to a category that is stored and
\* belongs to the transaction's own user, whatever createExpense,
\* quickExpense, bulkImport and updateExpense requests were answered
C13_CategoryOfSameOwner ==
  \A e \in expenses :
    \E c \in categories : c.id = e.category_id /\ c.user_id = e.user_id

\* An updateExpense that would move the requester's transaction to a stored
\* category of the other user, refused with 400, the transaction left where
\* it was.
C13_Witness ==
  \E x \in resp :
    /\ x.op = "updateExpense" /\ x.status = 400
    /\ \E c \in categories : c.id = x.category_id /\ c.user_id # x.user
    /\ \E e \in expenses : /\ e.id = x.id /\ e.user_id = x.user
                            /\ e.category_id # x.category_id

\* C15: every transaction row a createExpense, quickExpense or bulkImport
\* request adds has the user_id of the requester, whatever the body carries
C15_CreatedRowsBelongToRequester ==
  [][\A x \in resp' :
       x.op \in {"createExpense", "quickExpense", "bulkImport"} =>
         \A e \in expenses' :
           e.id \notin {f.id : f \in expenses} => e.user_id = x.user]_vars

\* C14: a request to read, update or delete a stored category or transaction
\* of another user is answered with a refusal that carries no data, and the
\* row is stored unchanged afterwards
C14_CrossUserAccessRejected ==
  [][\A x \in resp' :
       /\ x.op \in {"getCategoryById", "updateCategory", "deleteCategory"} =>
            \A c \in categories :
              (c.id = x.id /\ c.user_id # x.user) =>
                /\ x.status \in {403, 404}
                /\ "data" \notin DOMAIN x
                /\ c \in categories'
       /\ x.op \in {"getExpenseById", "updateExpense", "deleteExpense"} =>
            \A e \in expenses :
              (e.id = x.id /\ e.user_id # x.user) =>
                /\ x.status \in {403, 404}
                /\ "data" \notin DOMAIN x
                /\ e \in expenses']_vars

\* A transaction of one user asked for by the other and refused, while the
\* owner's category has been renamed by its owner.
C14_Witness ==
  \E x \in resp :
    /\ x.op = "getExpenseById" /\ x.status = 403
    /\ \E e \in expenses : e.id = x.id /\ e.user_id # x.user
    /\ \E c \in categories : c.user_id # x.user /\ c.name = <<"u85AA", "u8CC7">>

\* C16: no step changes the type or the owner of a stored category, and an
\* updateCategory request, whatever its body carries, leaves the stored ids
\* as they were and changes at most the name and the colour of a row
C16_TypeOwnerIdUnchanged ==
  [][/\ \A c \in categories : \A d \in categories' :
          d.id = c.id => d.type = c.type /\ d.user_id = c.user_id
     /\ \A x \in resp' :
          x.op = "updateCategory" =>
            {d.id : d \in categories'} = {c.id : c \in categories}]_vars

\* An update whose body carries a type other than the category's, answered
\* 200: the name and the colour are the body's, the type is the old one.
C16_Witness ==
  \E x \in resp :
    /\ x.op = "updateCategory" /\ x.status = 200
    /\ x.body.type = {"income"}
    /\ \E c \in categories : /\ c.id = x.id /\ c.type = "expense"
                              /\ {c.name} = x.body.name /\ {c.color} = x.body.color

\* C21: in the timeSeries of every statistics answer no entry of a later
\* period follows an entry of an earlier one: dates descend when groupBy is
\* 'day', (year, month) descends otherwise
C21_TimeSeriesMostRecentFirst ==
  \A x \in StatisticsSent :
    LET timeSeries == x.data.timeSeries
        Later(a, b) == IF x.groupBy = "day" THEN a.date > b.date
                       ELSE a.year * 12 + a.month > b.year * 12 + b.month
    IN \A i, j \in DOMAIN timeSeries : i < j => ~Later(timeSeries[j], timeSeries[i])

\* A monthly series of two months in which the transaction created first is
\* of the later month: the later month comes first.
C21_Witness ==
  \E x \in StatisticsSent :
    /\ x.groupBy = "month"
    /\ DOMAIN x.data.timeSeries = {1, 2}
    /\ x.data.timeSeries[1].month = 2 /\ x.data.timeSeries[2].month = 1
    /\ \E e, f \in expenses : /\ e.id < f.id
                               /\ e.transaction_date > f.transaction_date

\* C22: each of the three queries of getStatistics aggregates exactly the
\* transactions of the request's user dated from startDate to endDate, both
\* inclusive, an absent bound not limiting: the summary counts and sums
\* them all, the breakdown has for each category one row counting and
\* summing those of the category and no row for a category without one, and
\* the time series totals add up to their sum
C22_ExactlyUserAndWindow ==
  [][/\ \A p \in Procs :
          LET r == req'[p]
              window == Transactions(r, "income") \cup Transactions(r, "expense")
          IN /\ (req[p] = Idle /\ r.op = "getStatistics") =>
                  /\ r.summary.income.count + r.summary.expense.count = Cardinality(window)
                  /\ r.summary.income.total.nearest + r.summary.expense.total.nearest
                       = SUM(window)
             /\ (req[p].op = "getStatistics" /\ req[p].pc = "categoryQuery"
                   /\ r.op = "getStatistics" /\ r.pc = "timeSeriesQuery") =>
                  \A c \in categories :
                    LET of == {e \in window : e.category_id = c.id}
                        rows == {i \in DOMAIN r.categoryResults :
                                   r.categoryResults[i].category.id = c.id}
                    IN IF of = {} THEN rows = {}
                       ELSE \E i \in rows : /\ rows = {i}
                                             /\ r.categoryResults[i].count = Cardinality(of)
                                             /\ r.categoryResults[i].total = SUM(of)
     /\ \A x \in resp' :
          x.op = "getStatistics" =>
            SumOfTotals(x.data.timeSeries, DOMAIN x.data.timeSeries)
              = SUM(Transactions(x, "income") \cup Transactions(x, "expense"))]_vars

\* A summary read over the single day 2025-01-31 on which the user has one
\* transaction, the user's other transaction being of another day.
C22_Witness ==
  \E p \in Procs :
    /\ SummaryRead(p)
    /\ req[p].startDate = {20250131} /\ req[p].endDate = {20250131}
    /\ req[p].summary.income.count + req[p].summary.expense.count = 1
    /\ Cardinality({e \in expenses : e.user_id = req[p].user}) = 2
    /\ \E e \in expenses : e.user_id = req[p].user /\ e.transaction_date = 20250131

\* ------------------------------------------------- amount claim
\* C23: every stored transaction has an amount above 0.00 and below
\* 10,000,000.00
C23_AmountInRange ==
  \A e \in expenses : e.amount > 0 /\ e.amount < 1000000000

\* ------------------------------------------------- quick entry claims
\* What the claims say of a quickExpense answer x: the type its transaction
\* is to be recorded under, and the transaction it added.
ExpectedType(x) ==
  IF x.type # Absent THEN CHOOSE t \in x.type : TRUE
  ELSE IF ContainsKeyword(x.categoryName, EXPENSE_KEYWORDS) THEN "expense"
  ELSE IF ContainsKeyword(x.categoryName, INCOME_KEYWORDS) THEN "income"
  ELSE "expense"

\* C24: the transaction a quickExpense request answered 201 adds is recorded
\* under a category whose type is the request's type when it gives one,
\* else the type the name classifies as, else 'expense'
C24_QuickTypeChoice ==
  [][\A x \in resp' :
       (x.op = "quickExpense" /\ x.status = 201) =>
         \E e \in expenses' :
           /\ e.id = x.insertId /\ e \notin expenses
           /\ \E c \in categories' : c.id = e.category_id /\ c.type = ExpectedType(x)]_vars

\* A request without a type whose name has no keyword, answered 201: its
\* transaction is under an expense category of that name.
C24_Witness ==
  \E x \in resp :
    /\ x.op = "quickExpense" /\ x.status = 201
    /\ x.type = Absent /\ x.categoryName = <<"u660E">>
    /\ \E e \in expenses, c \in categories :
         /\ e.id = x.insertId /\ c.id = e.category_id
         /\ c.type = "expense" /\ c.name = <<"u660E">>

\* C26: a quickExpense request answered 201 leaves the categories as they
\* were when the requester has a category of its name and final type, and
\* its transaction refers to that category; it adds exactly one category,
\* the requester's, of that name and type, when there is none, and its
\* transaction refers to the new one; no user ever has two categories of
\* one name and type
C26_QuickSelectsOrCreatesOnce ==
  [][\A x \in resp' :
       (x.op = "quickExpense" /\ x.status = 201) =>
         LET Matches(c) == /\ c.user_id = x.user /\ c.name = x.categoryName
                           /\ c.type = x.finalType
             existing == {c \in categories : Matches(c)}
             added == categories' \ categories
             transaction == {e \in expenses' : e.id = x.insertId /\ e \notin expenses}
         IN /\ categories \subseteq categories'
            /\ Cardinality(transaction) = 1
            /\ IF existing # {}
               THEN /\ added = {}
                    /\ \A e \in transaction : \E c \in existing : c.id = e.category_id
               ELSE /\ Cardinality(added) = 1
                    /\ \A c \in added : Matches(c)
                    /\ \A e \in transaction : \E c \in added : c.id = e.category_id
            /\ \A c, d \in categories' :
                 (c.user_id = d.user_id /\ c.name = d.name /\ c.type = d.type) => c.id = d.id]_vars

\* A request answered 201 that selected the requester's own category while
\* the other user has a category of the same name and type.
C26_Witness ==
  \E x \in resp :
    /\ x.op = "quickExpense" /\ x.status = 201 /\ ~x.created
    /\ \E c, d \in categories :
         /\ c.user_id = x.user /\ d.user_id # x.user
         /\ c.name = x.categoryName /\ d.name = x.categoryName
         /\ c.type = x.finalType /\ d.type = x.finalType
         /\ \E e \in expenses : e.id = x.insertId /\ e.category_id = c.id

\* C27: a quickExpense request that is not answered 201 leaves the
\* categories and the transactions as they were before it
C27_FailedQuickLeavesStoreUnchanged ==
  [][\A x \in resp' :
       (x.op = "quickExpense" /\ x.status # 201) =>
         categories' = categories /\ expenses' = expenses]_vars

\* The indices held by a list of results.
Range(q) == {q[i] : i \in DOMAIN q}

\* C28: a bulkImport request with no array, an empty array or more than 100
\* records is answered 400 and adds no transaction; any other is answered
\* 207 when some record failed and 201 when none did, its success and failed
\* lists hold the indices 0..n-1 in rising order, each index in exactly one
\* of them, an index is in success exactly when its own record names a
\* category of its owner, whatever happened to the records before it, and
\* the transactions added are as many as the indices in success
C28_BulkImportOutcome ==
  [][\A x \in resp' :
       x.op = "bulkImport" =>
         LET n == Len(x.expenses)
             Rising(q) == \A i, j \in DOMAIN q : i < j => q[i] < q[j]
             Accepted(i) ==
               LET expenseData == Spread(x.user, x.expenses[i + 1])
               IN \E c \in categories :
                    c.id = expenseData.category_id /\ c.user_id = expenseData.user_id
         IN /\ categories' = categories
            /\ IF ~x.isArray \/ n = 0 \/ n > 100
               THEN x.status = 400 /\ expenses' = expenses
               ELSE /\ x.status = IF x.failed # <<>> THEN 207 ELSE 201
                    /\ Rising(x.success) /\ Rising(x.failed)
                    /\ Range(x.success) \cup Range(x.failed) = 0..(n - 1)
                    /\ Range(x.success) \cap Range(x.failed) = {}
                    /\ \A i \in 0..(n - 1) : i \in Range(x.success) <=> Accepted(i)
                    /\ expenses \subseteq expenses'
                    /\ Cardinality(expenses' \ expenses) = Len(x.success)]_vars

\* Two records, the first failed and the second stored: 207.
C28_Witness ==
  \E x \in resp :
    /\ x.op = "bulkImport" /\ x.status = 207
    /\ x.failed = <<0>> /\ x.success = <<1>>
    /\ \E e \in expenses : e.id = x.insertId /\ e.category_id = x.expenses[2].category_id

\* C29: an init-defaults request is answered 201; it adds one category of
\* the requester for each default (name, type) the requester had none of,
\* with the default colour, and nothing else; its list of created
\* categories holds exactly the rows added; afterwards the requester has
\* every default category, and a request of a requester who already has
\* them all creates nothing and leaves the table as it was
C29_DefaultCategoriesIdempotent ==
  [][\A x \in resp' :
       x.op = "initDefaultCategories" =>
         LET Has(cs, d) == \E c \in cs : c.user_id = x.user /\ c.name = d.name /\ c.type = d.type
             missing == {i \in DOMAIN defaultCategories : ~Has(categories, defaultCategories[i])}
             added == categories' \ categories
         IN /\ x.status = 201
            /\ categories \subseteq categories'
            /\ Cardinality(added) = Cardinality(missing)
            /\ {c.id : c \in added} = Range(x.createdCategories)
            /\ Len(x.createdCategories) = Cardinality(missing)
            /\ \A i \in missing :
                 \E c \in added : /\ c.user_id = x.user
                                  /\ c.name = defaultCategories[i].name
                                  /\ c.type = defaultCategories[i].type
                                  /\ c.color = defaultCategories[i].color
            /\ \A i \in DOMAIN defaultCategories : Has(categories', defaultCategories[i])
            /\ missing = {} => x.createdCategories = <<>> /\ categories' = categories]_vars

\* A request that created nothing, sent by a user who has all ten default
\* categories while the other user has some of the same names.
C29_Witness ==
  \E x \in resp :
    /\ x.op = "initDefaultCategories" /\ x.status = 201 /\ x.createdCategories = <<>>
    /\ \A i \in DOMAIN defaultCategories :
         \E c \in categories : /\ c.user_id = x.user
                               /\ c.name = defaultCategories[i].name
                               /\ c.type = defaultCategories[i].type
    /\ \E c \in categories : c.user_id # x.user

\* What holds of an execution of executeTransaction that has ended: commit
\* was called exactly when the callback completed, and then once; the rows
\* of the callback are in the table exactly when that commit succeeded; an
\* error caught from the callback or from commit was followed by one
\* rollback; the connection, when one was acquired, was released once, and
\* never when none was.
TransactionEnded(x) ==
  /\ x.commits = (IF x.callbackDone THEN 1 ELSE 0)
  /\ x.committed <=> (x.callbackDone /\ "commit" \notin x.fails)
  /\ IF x.committed THEN x.rows \subseteq categories /\ x.thrown = "none"
     ELSE x.rows \cap categories = {} /\ x.thrown # "none"
  /\ x.rollbacks = (IF x.caught # "none" THEN 1 ELSE 0)
  /\ x.caught \in {"callback", "commit"} => x.rollbacks = 1
  /\ x.released = (IF x.connection THEN 1 ELSE 0)

\* The connection of an execution under way has not been released yet, and
\* every execution that acquired one ends with it released.
ConnectionReleasedOnce ==
  /\ [](\A p \in Procs : req[p].op = "executeTransaction" => req[p].released = 0)
  /\ \A p \in Procs :
       (req[p].op = "executeTransaction" /\ req[p].connection)
         ~> (\E x \in resp : x.proc = p /\ x.op = "executeTransaction" /\ x.released = 1)

\* C30 as stated: commit exactly when the callback completes; when the
\* callback or commit fails, a rollback and that same error thrown; the
\* connection released exactly once on every path
C30_RethrowsTheCaughtError ==
  /\ [](\A x \in resp :
         x.op = "executeTransaction" =>
           /\ TransactionEnded(x)
           /\ x.caught \in {"callback", "commit"} => x.thrown = x.caught)
  /\ ConnectionReleasedOnce

\* C30: commit exactly when the callback completes; when beginTransaction,
\* the callback or commit fails, one rollback, and then the error thrown is
\* the one caught if the rollback succeeds and the rollback's own if it
\* rejects; the connection released exactly once on every path, whatever
\* rejects
C30_CommitRollbackRelease ==
  /\ [](\A x \in resp :
         x.op = "executeTransaction" =>
           /\ TransactionEnded(x)
           /\ x.caught # "none" =>
                x.thrown = IF "rollback" \in x.fails THEN "rollback" ELSE x.caught)
  /\ ConnectionReleasedOnce

\* An execution whose commit rejected: rolled back, the commit's error
\* thrown, the connection released, the callback's row not in the table.
C30_Witness ==
  \E x \in resp :
    /\ x.op = "executeTransaction" /\ x.callbackDone /\ x.caught = "commit"
    /\ x.rollbacks = 1 /\ x.thrown = "commit" /\ x.released = 1
    /\ x.rows # {} /\ x.rows \cap categories = {}

====
